---- MODULE Spec2Model ----
(***************************************************************************)
(* slim2diretta: the orchestrator's stream callback (slimproto receive     *)
(* thread), the per-track audio thread (DSD path and PCM path), the        *)
(* container PCM decoder and the DSD stream reader it drives, the shared   *)
(* HTTP stream client and the status counters of the Slimproto client.     *)
(*                                                                         *)
(* Byte, frame and sample quantities are the program's own; buffers are    *)
(* modelled by their lengths.  The Sink (DirettaSync) is not part of the   *)
(* sources at hand and is modelled from its documented contract.           *)
(***************************************************************************)
EXTENDS Integers, Naturals, Sequences, FiniteSets, TLC

(***************************************************************************)
(* Bounds of the model.                                                    *)
(***************************************************************************)
MaxTracks == 2

(***************************************************************************)
(* Program constants.                                                      *)
(***************************************************************************)
HTTP_BUF == 65536
MAX_DECODE_FRAMES == 1024
DECODE_CACHE_MAX_SAMPLES == 768000
PREBUFFER_MS == 500
COMPACT_SAMPLES == 100000
DSD_PLANAR_BUF == 16384
DSD_BUF_MAX == 1048576
DSF_MIN_HEADER == 92
DFF_MIN_HEADER == 16
WAV_MIN_HEADER == 44
MAGIC_LEN == 4
MAX_DSF_CHANNELS == 8

Min(a, b) == IF a < b THEN a ELSE b
Max(a, b) == IF a > b THEN a ELSE b

(***************************************************************************)
(* Streams the server can offer on a stream-start.  fmt is the strm format *)
(* character, cont the container magic of the stream body ("NONE": no      *)
(* known magic), hint whether the strm head carries a usable raw format,   *)
(* dataStart the offset of the first payload byte, data the payload size   *)
(* the container declares, len the number of bytes the HTTP body really    *)
(* delivers before the server closes the connection.                       *)
(***************************************************************************)
Stream(f, c, h, ds, ch, r, b, blk, d, l) ==
    [fmt |-> f, cont |-> c, hint |-> h, dataStart |-> ds, ch |-> ch,
     rate |-> r, bits |-> b, block |-> blk, data |-> d, len |-> l]

\* 16-bit stereo WAV, 4 frames, prebuffer target 2 frames
WavGood == Stream("p", "WAV", FALSE, 44, 2, 4, 16, 0, 16, 60)
\* the same WAV whose prebuffer target (22050 frames) is not met before EOF
WavShort == Stream("p", "WAV", FALSE, 44, 2, 44100, 16, 0, 16, 60)
\* mono 16-bit WAV
WavMono == Stream("p", "WAV", FALSE, 44, 1, 4, 16, 0, 8, 52)
\* WAV cut inside its header
WavCutHeader == Stream("p", "WAV", FALSE, 44, 2, 4, 16, 0, 16, 20)
\* WAV with a header and no payload
WavEmpty == Stream("p", "WAV", FALSE, 44, 2, 4, 16, 0, 0, 44)
\* raw PCM announced in the strm head
PcmRaw == Stream("p", "NONE", TRUE, 0, 2, 8000, 16, 0, 0, 16)
\* unknown magic, no raw format: the decoder reports an error
PcmBad == Stream("p", "NONE", FALSE, 0, 2, 4, 16, 0, 0, 8)
\* a format character Decoder::create has no decoder for
NoDecoder == Stream("w", "NONE", FALSE, 0, 2, 4, 16, 0, 0, 8)
\* DSF, two block groups of 2 x 4 bytes, prebuffer target 8 bytes
DsfGood == Stream("d", "DSF", FALSE, 92, 2, 64, 1, 4, 16, 108)
\* DSF whose prebuffer target (352800 bytes) is not met before EOF
DsfShort == Stream("d", "DSF", FALSE, 92, 2, 2822400, 1, 4, 16, 108)
\* DSF cut inside the container header
DsfCutHeader == Stream("d", "DSF", FALSE, 92, 2, 64, 1, 4, 16, 50)
\* DSF cut inside the second block group
DsfCutBlock == Stream("d", "DSF", FALSE, 92, 2, 64, 1, 4, 16, 104)
\* DSF with a complete header and no payload byte
DsfEmpty == Stream("d", "DSF", FALSE, 92, 2, 64, 1, 4, 16, 92)
\* DFF, stereo, 5 payload bytes (not a multiple of the channel count)
DffOdd == Stream("d", "DFF", FALSE, 120, 2, 64, 1, 0, 5, 125)
\* DFF, stereo, 6 payload bytes
DffGood == Stream("d", "DFF", FALSE, 120, 2, 64, 1, 0, 6, 126)
\* raw DSD announced in the strm head
DsdRaw == Stream("d", "NONE", TRUE, 0, 2, 44100, 1, 0, 0, 6)
\* unknown magic, no raw format: the reader reports an error
DsdBad == Stream("d", "NONE", FALSE, 0, 2, 64, 1, 0, 0, 8)

CoreStreams == {WavGood, NoDecoder}
DsdStreams == {DsfGood, DsfShort, DsfCutHeader, DsfCutBlock, DsfEmpty,
               DffOdd, DffGood, DsdRaw, DsdBad}
PcmStreams == {WavGood, WavShort, WavMono, WavCutHeader, WavEmpty, PcmRaw,
               PcmBad, NoDecoder}
CmdStreams == {WavGood, WavShort, NoDecoder, DsfGood, DsfShort}

\* sizes a single socket read may return (capped by what is left)
ReadSizes == {52, 100, HTTP_BUF}

(***************************************************************************)
(* Decoder::create                                                         *)
(***************************************************************************)
\* a factory that also hands out a decoder for format character 'w'
HasDecoderForW(f) == f \in {"f", "p", "w"}

HasDecoder(f) == f \in {"f", "p"}

(***************************************************************************)
(* Reader / decoder state shared by PcmDecoder and DsdStreamReader:        *)
(* st state, hdr = m_headerBuf.size(), buf = m_dataBuf.size(),             *)
(* rem = m_dataRemaining, out = frames or bytes returned so far.           *)
(***************************************************************************)
NewReader(rawCfg) ==
    [st |-> "DETECT", hdr |-> 0, buf |-> 0, rem |-> 0, eof |-> FALSE,
     fin |-> FALSE, err |-> FALSE, ready |-> FALSE, raw |-> rawCfg,
     out |-> 0]

Failed(rd) == [rd EXCEPT !.st = "ERROR", !.err = TRUE]

SetEof(rd) == [rd EXCEPT !.eof = TRUE]

(***************************************************************************)
(* PcmDecoder                                                              *)
(***************************************************************************)
PcmFeed(rd, n) ==
    IF rd.st \in {"DETECT", "PARSE_WAV", "PARSE_AIFF"}
    THEN [rd EXCEPT !.hdr = @ + n]
    ELSE IF rd.st = "DATA" THEN [rd EXCEPT !.buf = @ + n]
    ELSE rd

PcmDetectContainer(rd, s) ==
    IF rd.hdr < MAGIC_LEN THEN rd
    ELSE IF s.cont = "WAV" THEN [rd EXCEPT !.st = "PARSE_WAV"]
    ELSE IF s.cont = "AIFF" THEN [rd EXCEPT !.st = "PARSE_AIFF"]
    ELSE IF rd.raw
    THEN [rd EXCEPT !.ready = TRUE, !.rem = 0, !.buf = @ + rd.hdr,
                    !.hdr = 0, !.st = "DATA"]
    ELSE Failed(rd)

\* the data chunk header is found once the bytes up to dataStart are there
ParseWavHeader(rd, s) ==
    IF rd.hdr < WAV_MIN_HEADER \/ rd.hdr < s.dataStart THEN rd
    ELSE [rd EXCEPT !.rem = s.data, !.ready = TRUE,
                    !.buf = @ + (rd.hdr - s.dataStart), !.hdr = 0,
                    !.st = "DATA"]

PcmConvert(rd, s, maxFrames) ==
    LET bytesPerFrame == (s.bits \div 8) * s.ch
        availBytes == IF rd.rem > 0 THEN Min(rd.buf, rd.rem) ELSE rd.buf
        framesToConvert == IF bytesPerFrame = 0 THEN 0
                           ELSE Min(availBytes \div bytesPerFrame, maxFrames)
        bytesToConvert == framesToConvert * bytesPerFrame
    IN  IF bytesPerFrame = 0 THEN [rd |-> rd, n |-> 0]
        ELSE IF framesToConvert = 0
        THEN [rd |-> IF rd.eof THEN [rd EXCEPT !.fin = TRUE] ELSE rd, n |-> 0]
        ELSE [rd |-> [rd EXCEPT
                        !.buf = @ - bytesToConvert,
                        !.rem = IF @ > 0 THEN @ - bytesToConvert ELSE @,
                        !.fin = (rd.rem > 0 /\ rd.rem = bytesToConvert),
                        !.out = @ + framesToConvert],
              n |-> framesToConvert]

PcmReadDecoded(rd, s, maxFrames) ==
    IF rd.err \/ rd.fin THEN [rd |-> rd, n |-> 0]
    ELSE LET r1 == IF rd.st = "DETECT" THEN PcmDetectContainer(rd, s) ELSE rd
             r2 == IF r1.st = "PARSE_WAV" THEN ParseWavHeader(r1, s) ELSE r1
         IN  IF r2.st # "DATA" THEN [rd |-> r2, n |-> 0]
             ELSE PcmConvert(r2, s, maxFrames)

(***************************************************************************)
(* DsdStreamReader                                                         *)
(***************************************************************************)
\* bytes moved from the header buffer (or fed) into the data buffer,
\* respecting dataRemaining
DsdAppend(rd, n) ==
    LET toAdd == IF rd.rem > 0 /\ n > rd.rem THEN rd.rem ELSE n
    IN  [rd EXCEPT !.buf = @ + toAdd,
                   !.rem = IF @ > 0 THEN @ - toAdd ELSE @]

DsdDetectContainer(rd, s) ==
    IF rd.hdr < MAGIC_LEN THEN rd
    ELSE IF s.cont = "DSF" THEN [rd EXCEPT !.st = "PARSE_DSF"]
    ELSE IF s.cont = "DFF" THEN [rd EXCEPT !.st = "PARSE_DFF"]
    ELSE IF rd.raw
    THEN [rd EXCEPT !.ready = TRUE, !.rem = 0, !.buf = @ + rd.hdr,
                    !.hdr = 0, !.st = "DATA"]
    ELSE Failed(rd)

ParseDsfHeader(rd, s) ==
    IF rd.hdr < DSF_MIN_HEADER THEN rd
    ELSE IF s.ch = 0 \/ s.ch > MAX_DSF_CHANNELS \/ s.block = 0 THEN Failed(rd)
    ELSE IF rd.hdr < s.dataStart THEN rd
    ELSE LET r1 == [rd EXCEPT !.rem = s.data, !.ready = TRUE]
             r2 == IF rd.hdr > s.dataStart
                   THEN DsdAppend(r1, rd.hdr - s.dataStart) ELSE r1
         IN  [r2 EXCEPT !.hdr = 0, !.st = "DATA"]

ParseDffHeader(rd, s) ==
    IF rd.hdr < DFF_MIN_HEADER \/ rd.hdr < s.dataStart THEN rd
    ELSE IF s.rate = 0 \/ s.ch = 0 THEN Failed(rd)
    ELSE LET r1 == [rd EXCEPT !.rem = s.data, !.ready = TRUE]
             r2 == IF rd.hdr > s.dataStart
                   THEN DsdAppend(r1, rd.hdr - s.dataStart) ELSE r1
         IN  [r2 EXCEPT !.hdr = 0, !.st = "DATA"]

DsdFeed(rd, s, n) ==
    IF rd.st \in {"DONE", "ERROR"} THEN rd
    ELSE IF rd.st \in {"DETECT", "PARSE_DSF", "PARSE_DFF"}
    THEN LET r0 == [rd EXCEPT !.hdr = @ + n]
             r1 == IF r0.st = "DETECT" THEN DsdDetectContainer(r0, s) ELSE r0
         IN  IF r1.st = "PARSE_DSF" THEN ParseDsfHeader(r1, s)
             ELSE IF r1.st = "PARSE_DFF" THEN ParseDffHeader(r1, s)
             ELSE r1
    ELSE DsdAppend(rd, n)

\* number of bytes processDsfBlocks returns
DsfBlocksBytes(rd, s, maxBytes) ==
    LET blockGroup == s.block * s.ch
        groups == IF blockGroup = 0 THEN 0
                  ELSE Min(maxBytes \div blockGroup, rd.buf \div blockGroup)
        tail == (rd.buf \div s.ch) * s.ch
        usable == IF tail > maxBytes THEN (maxBytes \div s.ch) * s.ch ELSE tail
    IN  IF blockGroup = 0 THEN 0
        ELSE IF groups = 0
        THEN IF rd.eof /\ rd.buf > 0 /\ rd.rem = 0 THEN usable ELSE 0
        ELSE groups * blockGroup

\* number of bytes processDffData (and processRawData) returns
DffDataBytes(rd, s, maxBytes) ==
    IF rd.buf = 0 \/ s.ch = 0 THEN 0
    ELSE (Min(rd.buf, maxBytes) \div s.ch) * s.ch

ReadPlanar(rd, s, maxBytes) ==
    IF rd.st # "DATA" \/ ~rd.ready THEN [rd |-> rd, n |-> 0]
    ELSE LET result == IF s.cont = "DSF" THEN DsfBlocksBytes(rd, s, maxBytes)
                       ELSE DffDataBytes(rd, s, maxBytes)
             r1 == [rd EXCEPT !.buf = @ - result, !.out = @ + result]
         IN  IF result = 0 /\ r1.buf = 0 /\ r1.eof
             THEN [rd |-> [r1 EXCEPT !.fin = TRUE, !.st = "DONE"], n |-> 0]
             ELSE [rd |-> r1, n |-> result]

\* availableBytes(): the reader's staged data bytes
AvailableBytes(rd) == rd.buf


(***************************************************************************)
(* State.                                                                  *)
(*   audioTestRunning, audioThreadDone : the two shared atomics            *)
(*   audioTestThread : the track whose thread the std::thread object       *)
(*                     holds, 0 when it is not joinable                    *)
(*   http            : the shared HttpStreamClient (m_connected, m_socket  *)
(*                     open, bytes the server has yet to deliver)          *)
(*   sink            : the Sink as the orchestrator sees it; ops records   *)
(*                     the control calls made since the last stream-start  *)
(*   bytesReceived, elapsedMs : status counters of the Slimproto client    *)
(*   rx              : position of the receive thread inside the stream    *)
(*                     callback, and the stream of the pending start       *)
(*   nextTrack       : number the next stream-start gets                   *)
(*   thr             : the audio threads, one per track                    *)
(*   statBytes       : bytes_received carried by the last STAT frame of    *)
(*                     the current track (0 when there was none yet)       *)
(* Of a thread record, sends counts its sendAudio calls, stats lists the   *)
(* STAT events it sent, stmn counts the STMn sent for its track, fail      *)
(* names the failure that ended the track, sawCancel tells that the thread *)
(* has read audioTestRunning as false, acked that STMf was sent for a stop *)
(* or flush while the thread had not returned.                             *)
(***************************************************************************)
VARIABLES audioTestRunning, audioThreadDone, audioTestThread, http, sink,
          bytesReceived, elapsedMs, rx, nextTrack, thr, statBytes

vars == <<audioTestRunning, audioThreadDone, audioTestThread, http, sink,
          bytesReceived, elapsedMs, rx, nextTrack, thr, statBytes>>

(***************************************************************************)
(* State of the main thread and of the Slimproto client.                   *)
(*   g_running : the process-wide running flag, cleared by the signal      *)
(*               handler                                                   *)
(*   mainT     : the main thread: its position, the two locals of the      *)
(*               connection loop, the seconds slept before each connect    *)
(*               attempt since the last successful one, the number of      *)
(*               connect calls made, and which of the two stopAudioThread  *)
(*               calls is running                                          *)
(*   client    : the SlimprotoClient: m_connected, m_running, whether its  *)
(*               socket is open, where the receive thread is ("none",      *)
(*               "run" or "returned"), whether the server has closed the   *)
(*               control connection, and the HELO registrations sent       *)
(*   ctl       : the Sink control calls in progress, as <<caller, call>>   *)
(*   wire      : the work of the receive loop: the frames read, what the   *)
(*               client sent in reply to the last one, the callbacks that  *)
(*               frame led to, and whether the socket of the HTTP connect  *)
(*               the callback is blocked in has been shut down under it    *)
(***************************************************************************)
VARIABLES g_running, mainT, client, ctl, wire

(***************************************************************************)
(*   unit      : one object of the program taken by itself (an             *)
(*               HttpStreamClient over the bytes of an HTTP body, a        *)
(*               decoder, a DSD reader) with the bytes it has been given   *)
(*               and the results of the calls made on it; NoUnit while     *)
(*               the program as a whole is running                         *)
(***************************************************************************)
VARIABLE unit

NoUnit == [kind |-> "none"]

mvars == <<unit, g_running, mainT, client, ctl, wire>>

allvars == <<vars, mvars>>

INITIAL_BACKOFF_S == 2
MAX_BACKOFF_S == 30

\* Config as the command line leaves it: macAddress holds the fields that
\* sscanf reads from the option (none when the option is absent), playerName
\* is the value std::hash gives the name, as its bytes from the lowest
DefaultConfig ==
    [macAddress |-> <<>>,
     playerName |-> <<201, 58, 17, 99, 4, 230, 7, 81>>, dsdEnabled |-> TRUE,
     maxSampleRate |-> 768000]

MainInit ==
    /\ g_running = TRUE
    /\ mainT = [pc |-> "start", config |-> DefaultConfig,
                backoffS |-> INITIAL_BACKOFF_S, connectionCount |-> 0,
                waits |-> <<>>, attempts |-> 0, site |-> "loop"]
    /\ client = [connected |-> FALSE, running |-> FALSE, sock |-> "none",
                 rxT |-> "none", peerClosed |-> FALSE, mac |-> <<>>,
                 helos |-> <<>>, byes |-> 0]
    /\ ctl = {}
    /\ wire = [n |-> 0, frame |-> <<>>, out |-> <<>>, streamCb |-> <<>>,
               volumeCb |-> <<>>, httpShut |-> FALSE, log |-> "none"]

Tracks == 1..MaxTracks

\* a track no stream-start has been dispatched for yet
NoThread ==
    [pc |-> "none", s |-> NoDecoder, httpEof |-> FALSE, totalBytes |-> 0,
     formatLogged |-> FALSE, opened |-> FALSE, pushed |-> 0, detCh |-> 2,
     cacheSize |-> 0, cachePos |-> 0, rd |-> NewReader(FALSE),
     sends |-> 0, stats |-> <<>>, stmn |-> 0, sawCancel |-> FALSE,
     acked |-> FALSE, fail |-> "none"]

\* the thread object as std::thread's constructor leaves it
Spawned(s) == [NoThread EXCEPT !.pc = "start", !.s = s]

Alive(t) == thr[t].pc \notin {"none", "nothread", "ended"}

ProgramInit ==
    /\ audioTestRunning = FALSE
    /\ audioThreadDone = TRUE
    /\ audioTestThread = 0
    /\ http = [connected |-> FALSE, sock |-> FALSE, left |-> 0]
    /\ sink = [open |-> FALSE, playing |-> FALSE, paused |-> FALSE,
               level |-> 0, ops |-> {}]
    /\ bytesReceived = 0
    /\ elapsedMs = 0
    /\ rx = [pc |-> "idle", s |-> NoDecoder]
    /\ nextTrack = 1
    /\ thr = [t \in Tracks |-> NoThread]
    /\ statBytes = 0
    /\ MainInit

Init == ProgramInit /\ unit = NoUnit

(***************************************************************************)
(* The Sink, from its contract: level 0 is a ring at or below 90 %, level  *)
(* 1 above 90 % and at most 95 %, level 2 above the 95 % high-water mark.  *)
(***************************************************************************)
HighWater == 2

SinkStopPlayback(k) ==
    [k EXCEPT !.playing = FALSE, !.paused = FALSE, !.level = 0,
              !.ops = @ \cup {"stop"}]

SinkOpen(k, ok) ==
    [k EXCEPT !.open = ok, !.playing = ok, !.paused = FALSE, !.level = 0,
              !.ops = @ \cup {"open"}]

SinkPause(k) ==
    IF k.playing /\ ~k.paused THEN [k EXCEPT !.paused = TRUE] ELSE k

SinkResume(k) == [k EXCEPT !.paused = FALSE]

\* send_audio: the ring fills up to some level at or above the present one
SinkSendAudio(k, lvl) == IF k.open THEN [k EXCEPT !.level = lvl] ELSE k

LevelsFrom(k) == IF k.open THEN k.level..HighWater ELSE {k.level}

\* the worker drains the ring
SinkDrain ==
    /\ sink.level > 0 /\ sink.playing /\ ~sink.paused
    /\ sink' = [sink EXCEPT !.level = @ - 1]
    /\ UNCHANGED <<audioTestRunning, audioThreadDone, audioTestThread, http,
                   bytesReceived, elapsedMs, rx, nextTrack, thr, statBytes>>

(***************************************************************************)
(* HttpStreamClient                                                        *)
(***************************************************************************)
HttpDisconnect(h) == [h EXCEPT !.connected = FALSE, !.sock = FALSE]

\* readWithTimeout: the value returned and the client state it leaves
ReadOutcomes(h) ==
    IF ~h.sock THEN {[n |-> -1, http |-> h]}
    ELSE {[n |-> 0, http |-> h]}
         \cup (IF h.left > 0
               THEN {[n |-> Min(c, h.left),
                      http |-> [h EXCEPT !.left = @ - Min(c, h.left)]]
                     : c \in ReadSizes}
               ELSE {[n |-> 0, http |-> [h EXCEPT !.connected = FALSE]]})


(***************************************************************************)
(* Stream callback, run by the slimproto receive thread.                   *)
(***************************************************************************)
\* STRM_START up to the wait for the previous audio thread
StartDispatch(s) ==
    /\ rx.pc = "idle"
    /\ nextTrack <= MaxTracks
    /\ sink' = (IF sink.playing THEN [SinkStopPlayback(sink) EXCEPT !.ops = {}]
                ELSE [sink EXCEPT !.ops = {}])
    /\ audioTestRunning' = FALSE
    /\ http' = HttpDisconnect(http)
    /\ rx' = [pc |-> IF audioTestThread # 0 THEN "wait" ELSE "connect",
              s |-> s]
    /\ UNCHANGED <<audioThreadDone, audioTestThread, bytesReceived, elapsedMs,
                   nextTrack, thr, statBytes>>

RxStart == \E s \in CoreStreams : StartDispatch(s)

\* the previous thread set audioThreadDone: join it
RxJoin ==
    /\ rx.pc = "wait"
    /\ audioThreadDone
    /\ thr[audioTestThread].pc = "ended"
    /\ audioTestThread' = 0
    /\ rx' = [rx EXCEPT !.pc = "connect"]
    /\ UNCHANGED <<audioTestRunning, audioThreadDone, http, sink,
                   bytesReceived, elapsedMs, nextTrack, thr, statBytes>>

\* the 500 ms deadline passed with audioThreadDone still false: detach
RxDetach ==
    /\ rx.pc = "wait"
    /\ ~audioThreadDone
    /\ audioTestThread' = 0
    /\ rx' = [rx EXCEPT !.pc = "connect"]
    /\ UNCHANGED <<audioTestRunning, audioThreadDone, http, sink,
                   bytesReceived, elapsedMs, nextTrack, thr, statBytes>>

\* httpStream->connect fails: STMn, the dispatch returns
RxConnectFail ==
    /\ rx.pc = "connect"
    /\ thr' = [thr EXCEPT ![nextTrack] =
                 [NoThread EXCEPT !.pc = "nothread", !.s = rx.s, !.stmn = 1,
                                  !.stats = <<"STMn">>, !.fail = "connect"]]
    /\ statBytes' = 0
    /\ rx' = [rx EXCEPT !.pc = "idle"]
    /\ nextTrack' = nextTrack + 1
    /\ UNCHANGED <<audioTestRunning, audioThreadDone, audioTestThread, http,
                   sink, bytesReceived, elapsedMs>>

\* httpStream->connect succeeds: STMc, RESP, STMh
RxConnectOk ==
    /\ rx.pc = "connect"
    /\ http' = [connected |-> TRUE, sock |-> TRUE, left |-> rx.s.len]
    /\ statBytes' = bytesReceived
    /\ rx' = [rx EXCEPT !.pc = "spawn"]
    /\ UNCHANGED <<audioTestRunning, audioThreadDone, audioTestThread, sink,
                   bytesReceived, elapsedMs, nextTrack, thr>>

\* counters reset, flags set, the audio thread is created, dispatch returns
RxSpawn ==
    /\ rx.pc = "spawn"
    /\ elapsedMs' = 0
    /\ bytesReceived' = 0
    /\ audioTestRunning' = TRUE
    /\ audioThreadDone' = FALSE
    /\ audioTestThread' = nextTrack
    /\ thr' = [thr EXCEPT ![nextTrack] = Spawned(rx.s)]
    /\ statBytes' = 0
    /\ rx' = [rx EXCEPT !.pc = "idle"]
    /\ nextTrack' = nextTrack + 1
    /\ UNCHANGED <<http, sink>>

\* STRM_STOP and STRM_FLUSH share their body; STMf is the last statement
RxStopFlush ==
    /\ rx.pc = "idle"
    /\ audioTestRunning' = FALSE
    /\ http' = HttpDisconnect(http)
    /\ sink' = (IF sink.playing THEN SinkStopPlayback(sink) ELSE sink)
    /\ statBytes' = bytesReceived
    /\ thr' = [t \in Tracks |->
                 IF Alive(t) THEN [thr[t] EXCEPT !.acked = TRUE] ELSE thr[t]]
    /\ UNCHANGED <<audioThreadDone, audioTestThread, bytesReceived, elapsedMs,
                   rx, nextTrack>>

\* STRM_PAUSE: pausePlayback, STMp
RxPause ==
    /\ rx.pc = "idle"
    /\ sink' = SinkPause(sink)
    /\ statBytes' = bytesReceived
    /\ UNCHANGED <<audioTestRunning, audioThreadDone, audioTestThread, http,
                   bytesReceived, elapsedMs, rx, nextTrack, thr>>

\* STRM_UNPAUSE: resumePlayback, STMr
RxUnpause ==
    /\ rx.pc = "idle"
    /\ sink' = SinkResume(sink)
    /\ statBytes' = bytesReceived
    /\ UNCHANGED <<audioTestRunning, audioThreadDone, audioTestThread, http,
                   bytesReceived, elapsedMs, rx, nextTrack, thr>>

\* strm 't': handleStrm answers with STMt and does not call the callback
RxStatus ==
    /\ rx.pc = "idle"
    /\ statBytes' = bytesReceived
    /\ UNCHANGED <<audioTestRunning, audioThreadDone, audioTestThread, http,
                   sink, bytesReceived, elapsedMs, rx, nextTrack, thr>>


(***************************************************************************)
(* Audio thread: entry.                                                    *)
(***************************************************************************)
IsDsd(t) == thr[t].s.fmt = "d"

\* reader or decoder creation; STMs, or STMn when there is no decoder
ThreadStart(t) ==
    /\ thr[t].pc = "start"
    /\ LET r == thr[t]
       IN  IF r.s.fmt = "d" \/ HasDecoder(r.s.fmt)
           THEN /\ thr' = [thr EXCEPT ![t] =
                             [r EXCEPT !.rd = NewReader(r.s.hint),
                                       !.stats = Append(@, "STMs"),
                                       !.pc = "check"]]
                /\ UNCHANGED audioThreadDone
           ELSE /\ thr' = [thr EXCEPT ![t] =
                             [r EXCEPT !.stats = Append(@, "STMn"),
                                       !.stmn = @ + 1,
                                       !.fail = "decoder",
                                       !.pc = "ended"]]
                /\ audioThreadDone' = TRUE
    /\ statBytes' = bytesReceived
    /\ UNCHANGED <<audioTestRunning, audioTestThread, http, sink,
                   bytesReceived, elapsedMs, rx, nextTrack>>

(***************************************************************************)
(* Audio thread: PCM path.                                                 *)
(***************************************************************************)
CacheFrames(r) == (r.cacheSize - r.cachePos) \div Max(r.detCh, 1)

RECURSIVE DrainDecoder(_, _, _, _)
\* while (true) { frames = readDecoded(...); if (frames == 0) break; insert }
DrainDecoder(rd, s, cacheSize, detCh) ==
    LET r == PcmReadDecoded(rd, s, MAX_DECODE_FRAMES)
    IN  IF r.n = 0 THEN [rd |-> r.rd, cacheSize |-> cacheSize]
        ELSE DrainDecoder(r.rd, s, cacheSize + r.n * detCh, detCh)

\* the condition of the main loop
PcmCheck(t) ==
    /\ thr[t].pc = "check" /\ ~IsDsd(t)
    /\ LET r == thr[t]
       IN  thr' = [thr EXCEPT ![t] =
                     IF audioTestRunning /\ (~r.httpEof \/ CacheFrames(r) > 0)
                     THEN [r EXCEPT !.pc = "body"]
                     ELSE [r EXCEPT !.pc = "drain",
                                    !.sawCancel = @ \/ ~audioTestRunning]]
    /\ UNCHANGED <<audioTestRunning, audioThreadDone, audioTestThread, http,
                   sink, bytesReceived, elapsedMs, rx, nextTrack, statBytes>>

\* one pass through the body of the main loop (phases 1a to 7)
PcmBody(t) ==
    /\ thr[t].pc = "body" /\ ~IsDsd(t)
    /\ LET r == thr[t]
           s == r.s
           doRead == r.cacheSize - r.cachePos < DECODE_CACHE_MAX_SAMPLES
                     /\ ~r.httpEof
       IN  \E o \in (IF doRead /\ http.connected THEN ReadOutcomes(http)
                     ELSE {[n |-> 0, http |-> http]}) :
           \E lvl \in LevelsFrom(sink) :
           LET gotData == doRead /\ http.connected /\ o.n > 0
               eofNow == doRead /\ (~http.connected
                                    \/ (o.n <= 0 /\ (o.n < 0 \/ ~o.http.connected)))
               total1 == IF gotData THEN r.totalBytes + o.n ELSE r.totalBytes
               rd1 == IF gotData THEN PcmFeed(r.rd, o.n)
                      ELSE IF eofNow THEN SetEof(r.rd) ELSE r.rd
               httpEof1 == r.httpEof \/ eofNow
               dr == IF r.cacheSize - r.cachePos < DECODE_CACHE_MAX_SAMPLES
                     THEN DrainDecoder(rd1, s, r.cacheSize, r.detCh)
                     ELSE [rd |-> rd1, cacheSize |-> r.cacheSize]
               detect == ~r.formatLogged /\ dr.rd.ready
               fl == r.formatLogged \/ detect
               ch == IF detect THEN s.ch ELSE r.detCh
               frames == (dr.cacheSize - r.cachePos) \div Max(ch, 1)
               targetFrames == (s.rate * PREBUFFER_MS) \div 1000
               r2 == [r EXCEPT !.totalBytes = total1, !.rd = dr.rd,
                               !.httpEof = httpEof1,
                               !.cacheSize = dr.cacheSize,
                               !.formatLogged = fl, !.detCh = ch]
               canPush == r.opened /\ frames > 0 /\ ~sink.paused
                          /\ sink.level < HighWater
               push == Min(frames, MAX_DECODE_FRAMES)
               pos1 == IF canPush THEN r.cachePos + push * ch ELSE r.cachePos
               pushed1 == IF canPush THEN r.pushed + push ELSE r.pushed
               compact == pos1 > COMPACT_SAMPLES
           IN  /\ http' = o.http
               /\ bytesReceived' = IF gotData THEN total1 ELSE bytesReceived
               /\ IF fl /\ ~r.opened
                  THEN \* prebuffer phase, ends in "continue"
                       /\ lvl = sink.level
                       /\ thr' = [thr EXCEPT ![t] =
                            [r2 EXCEPT !.pc =
                               IF (frames >= targetFrames \/ httpEof1)
                                  /\ frames > 0
                               THEN "open" ELSE "check"]]
                       /\ UNCHANGED <<sink, elapsedMs>>
                  ELSE /\ canPush \/ lvl = sink.level
                       /\ sink' = IF canPush THEN SinkSendAudio(sink, lvl)
                                  ELSE sink
                       /\ elapsedMs' = IF r.opened /\ dr.rd.ready /\ s.rate > 0
                                       THEN (pushed1 * 1000) \div s.rate
                                       ELSE elapsedMs
                       /\ thr' = [thr EXCEPT ![t] =
                            [r2 EXCEPT
                               !.cachePos = IF compact THEN 0 ELSE pos1,
                               !.cacheSize = IF compact THEN @ - pos1 ELSE @,
                               !.pushed = pushed1,
                               !.sends = IF canPush THEN @ + 1 ELSE @,
                               !.pc = IF dr.rd.err THEN "drain" ELSE "check"]]
    /\ UNCHANGED <<audioTestRunning, audioThreadDone, audioTestThread, rx,
                   nextTrack, statBytes>>

\* direttaPtr->open; on success the prebuffer is flushed and STMl sent
PcmOpen(t) ==
    /\ thr[t].pc = "open" /\ ~IsDsd(t)
    /\ \E ok \in BOOLEAN :
       \E lvl \in 0..HighWater :
       LET r == thr[t]
           prebufFrames == CacheFrames(r)
           chunks == IF audioTestRunning
                     THEN (prebufFrames + MAX_DECODE_FRAMES - 1)
                          \div MAX_DECODE_FRAMES
                     ELSE 0
       IN  IF ok
           THEN /\ sink' = IF chunks > 0
                           THEN SinkSendAudio(SinkOpen(sink, TRUE), lvl)
                           ELSE SinkOpen(sink, TRUE)
                /\ chunks > 0 \/ lvl = 0
                /\ thr' = [thr EXCEPT ![t] =
                     [r EXCEPT !.cachePos = @ + prebufFrames * r.detCh,
                               !.pushed = @ + prebufFrames,
                               !.sends = @ + chunks,
                               !.opened = TRUE,
                               !.sawCancel = @ \/ ~audioTestRunning,
                               !.stats = Append(@, "STMl"),
                               !.pc = "check"]]
                /\ UNCHANGED audioThreadDone
           ELSE /\ lvl = 0
                /\ sink' = SinkOpen(sink, FALSE)
                /\ thr' = [thr EXCEPT ![t] =
                     [r EXCEPT !.stats = Append(@, "STMn"),
                               !.stmn = @ + 1,
                               !.fail = "open",
                               !.pc = "ended"]]
                /\ audioThreadDone' = TRUE
    /\ statBytes' = bytesReceived
    /\ UNCHANGED <<audioTestRunning, audioTestThread, http, bytesReceived,
                   elapsedMs, rx, nextTrack>>

\* after the main loop: setEof and the decoder's remaining frames
PcmDrain(t) ==
    /\ thr[t].pc = "drain" /\ ~IsDsd(t)
    /\ LET r == thr[t]
           rd1 == SetEof(r.rd)
           dr == IF ~rd1.fin /\ ~rd1.err /\ audioTestRunning
                 THEN DrainDecoder(rd1, r.s, r.cacheSize, r.detCh)
                 ELSE [rd |-> rd1, cacheSize |-> r.cacheSize]
       IN  thr' = [thr EXCEPT ![t] =
                     [r EXCEPT !.rd = dr.rd, !.cacheSize = dr.cacheSize,
                               !.sawCancel = @ \/ (~rd1.fin /\ ~rd1.err
                                                   /\ ~audioTestRunning),
                               !.pc = "push"]]
    /\ UNCHANGED <<audioTestRunning, audioThreadDone, audioTestThread, http,
                   sink, bytesReceived, elapsedMs, rx, nextTrack, statBytes>>

\* the condition of the loop that pushes the remaining cache
PcmPush(t) ==
    /\ thr[t].pc = "push" /\ ~IsDsd(t)
    /\ LET r == thr[t]
           more == r.opened /\ CacheFrames(r) > 0
       IN  thr' = [thr EXCEPT ![t] =
                     IF more /\ audioTestRunning
                     THEN [r EXCEPT !.pc = "wait"]
                     ELSE [r EXCEPT !.pc = "fin",
                                    !.sawCancel = @ \/ (more /\ ~audioTestRunning)]]
    /\ UNCHANGED <<audioTestRunning, audioThreadDone, audioTestThread, http,
                   sink, bytesReceived, elapsedMs, rx, nextTrack, statBytes>>

\* the wait for space has ended (or the flag was cleared): push one chunk
PcmPushChunk(t) ==
    /\ thr[t].pc = "wait" /\ ~IsDsd(t)
    /\ ~(audioTestRunning /\ (sink.paused \/ sink.level = HighWater))
    /\ \E lvl \in LevelsFrom(sink) :
       LET r == thr[t]
           push == Min(CacheFrames(r), MAX_DECODE_FRAMES)
           pushed1 == r.pushed + push
       IN  /\ sink' = SinkSendAudio(sink, lvl)
           /\ elapsedMs' = IF r.rd.ready /\ r.s.rate > 0
                           THEN (pushed1 * 1000) \div r.s.rate ELSE elapsedMs
           /\ thr' = [thr EXCEPT ![t] =
                [r EXCEPT !.cachePos = @ + push * r.detCh,
                          !.pushed = pushed1,
                          !.sends = @ + 1,
                          !.sawCancel = @ \/ ~audioTestRunning,
                          !.pc = "push"]]
    /\ UNCHANGED <<audioTestRunning, audioThreadDone, audioTestThread, http,
                   bytesReceived, rx, nextTrack, statBytes>>

\* a thread that reports the underrun before the decoder end
PcmFinishUnderrunFirst(t) ==
    /\ thr[t].pc = "fin" /\ ~IsDsd(t)
    /\ thr' = [thr EXCEPT ![t] =
                 [@ EXCEPT !.stats = @ \o <<"STMu", "STMd">>,
                           !.pc = "ended"]]
    /\ audioThreadDone' = TRUE
    /\ statBytes' = bytesReceived
    /\ UNCHANGED <<audioTestRunning, audioTestThread, http, sink,
                   bytesReceived, elapsedMs, rx, nextTrack>>

\* STMd, STMu, audioThreadDone
PcmFinish(t) ==
    /\ thr[t].pc = "fin" /\ ~IsDsd(t)
    /\ thr' = [thr EXCEPT ![t] =
                 [@ EXCEPT !.stats = @ \o <<"STMd", "STMu">>,
                           !.pc = "ended"]]
    /\ audioThreadDone' = TRUE
    /\ statBytes' = bytesReceived
    /\ UNCHANGED <<audioTestRunning, audioTestThread, http, sink,
                   bytesReceived, elapsedMs, rx, nextTrack>>

(***************************************************************************)
(* Audio thread: DSD path.                                                 *)
(***************************************************************************)
\* byteRateTotal once the format is known
ByteRateTotal(r) == IF r.formatLogged THEN (r.s.rate \div 8) * r.s.ch ELSE 0

\* the condition of the main loop
DsdCheck(t) ==
    /\ thr[t].pc = "check" /\ IsDsd(t)
    /\ LET r == thr[t]
       IN  thr' = [thr EXCEPT ![t] =
                     IF audioTestRunning
                        /\ (~r.httpEof \/ AvailableBytes(r.rd) > 0 \/ ~r.rd.fin)
                     THEN [r EXCEPT !.pc = "body"]
                     ELSE [r EXCEPT !.pc = "drain",
                                    !.sawCancel = @ \/ ~audioTestRunning]]
    /\ UNCHANGED <<audioTestRunning, audioThreadDone, audioTestThread, http,
                   sink, bytesReceived, elapsedMs, rx, nextTrack, statBytes>>

\* one pass through the body of the main loop (phases 1 to 6)
DsdBody(t) ==
    /\ thr[t].pc = "body" /\ IsDsd(t)
    /\ LET r == thr[t]
           s == r.s
           doRead == ~r.httpEof /\ AvailableBytes(r.rd) < DSD_BUF_MAX
       IN  \E o \in (IF doRead /\ http.connected THEN ReadOutcomes(http)
                     ELSE {[n |-> 0, http |-> http]}) :
           \E lvl \in LevelsFrom(sink) :
           LET gotData == doRead /\ http.connected /\ o.n > 0
               eofNow == doRead /\ (~http.connected
                                    \/ (o.n <= 0 /\ (o.n < 0 \/ ~o.http.connected)))
               total1 == IF gotData THEN r.totalBytes + o.n ELSE r.totalBytes
               rd1 == IF gotData THEN DsdFeed(r.rd, s, o.n)
                      ELSE IF eofNow THEN SetEof(r.rd) ELSE r.rd
               httpEof1 == r.httpEof \/ eofNow
               fl == r.formatLogged \/ rd1.ready
               r2 == [r EXCEPT !.totalBytes = total1, !.rd = rd1,
                               !.httpEof = httpEof1, !.formatLogged = fl,
                               !.detCh = IF ~r.formatLogged /\ rd1.ready
                                         THEN s.ch ELSE @]
               brt == ByteRateTotal(r2)
               rawTarget == (brt * PREBUFFER_MS) \div 1000
               targetBytes == Min(rawTarget, (DSD_BUF_MAX * 3) \div 4)
               avail == AvailableBytes(rd1)
               tryPush == r.opened /\ avail > 0 /\ ~sink.paused
                          /\ sink.level < HighWater
               rp == IF tryPush THEN ReadPlanar(rd1, s, DSD_PLANAR_BUF)
                     ELSE [rd |-> rd1, n |-> 0]
               pushed1 == r.pushed + rp.n
           IN  /\ http' = o.http
               /\ bytesReceived' = IF gotData THEN total1 ELSE bytesReceived
               /\ IF fl /\ ~r.opened
                  THEN \* prebuffer phase, ends in "continue"
                       /\ lvl = sink.level
                       /\ thr' = [thr EXCEPT ![t] =
                            [r2 EXCEPT !.pc =
                               IF (avail >= targetBytes \/ httpEof1)
                                  /\ avail # 0
                               THEN "open" ELSE "check"]]
                       /\ UNCHANGED <<sink, elapsedMs>>
                  ELSE /\ rp.n > 0 \/ lvl = sink.level
                       /\ sink' = IF rp.n > 0 THEN SinkSendAudio(sink, lvl)
                                  ELSE sink
                       /\ elapsedMs' = IF r.opened /\ brt > 0
                                       THEN (pushed1 * 1000) \div brt
                                       ELSE elapsedMs
                       /\ thr' = [thr EXCEPT ![t] =
                            [r2 EXCEPT
                               !.rd = rp.rd,
                               !.pushed = pushed1,
                               !.sends = IF rp.n > 0 THEN @ + 1 ELSE @,
                               !.pc = IF rp.rd.err THEN "drain" ELSE "check"]]
    /\ UNCHANGED <<audioTestRunning, audioThreadDone, audioTestThread, rx,
                   nextTrack, statBytes>>

\* direttaPtr->open for DSD
DsdOpen(t) ==
    /\ thr[t].pc = "open" /\ IsDsd(t)
    /\ \E ok \in BOOLEAN :
       LET r == thr[t]
       IN  IF ok
           THEN /\ sink' = SinkOpen(sink, TRUE)
                /\ thr' = [thr EXCEPT ![t] = [r EXCEPT !.pc = "flush"]]
                /\ UNCHANGED <<audioThreadDone, statBytes>>
           ELSE /\ sink' = SinkOpen(sink, FALSE)
                /\ thr' = [thr EXCEPT ![t] =
                     [r EXCEPT !.stats = Append(@, "STMn"),
                               !.stmn = @ + 1,
                               !.fail = "open",
                               !.pc = "ended"]]
                /\ audioThreadDone' = TRUE
                /\ statBytes' = bytesReceived
    /\ UNCHANGED <<audioTestRunning, audioTestThread, http, bytesReceived,
                   elapsedMs, rx, nextTrack>>

\* one iteration of the prebuffer flush; leaving it sets direttaOpened, STMl
DsdFlush(t) ==
    /\ thr[t].pc = "flush" /\ IsDsd(t)
    /\ \E lvl \in LevelsFrom(sink) :
       LET r == thr[t]
           go == audioTestRunning /\ sink.level = 0
           rp == IF go THEN ReadPlanar(r.rd, r.s, DSD_PLANAR_BUF)
                 ELSE [rd |-> r.rd, n |-> 0]
       IN  IF rp.n > 0
           THEN /\ sink' = SinkSendAudio(sink, lvl)
                /\ thr' = [thr EXCEPT ![t] =
                     [r EXCEPT !.rd = rp.rd, !.pushed = @ + rp.n,
                               !.sends = @ + 1]]
                /\ UNCHANGED statBytes
           ELSE /\ lvl = sink.level
                /\ thr' = [thr EXCEPT ![t] =
                     [r EXCEPT !.rd = rp.rd, !.opened = TRUE,
                               !.sawCancel = @ \/ ~audioTestRunning,
                               !.stats = Append(@, "STMl"),
                               !.pc = "check"]]
                /\ statBytes' = bytesReceived
                /\ UNCHANGED sink
    /\ UNCHANGED <<audioTestRunning, audioThreadDone, audioTestThread, http,
                   bytesReceived, elapsedMs, rx, nextTrack>>

\* after the main loop: setEof
DsdDrain(t) ==
    /\ thr[t].pc = "drain" /\ IsDsd(t)
    /\ thr' = [thr EXCEPT ![t] =
                 [@ EXCEPT !.rd = SetEof(@), !.pc = "push"]]
    /\ UNCHANGED <<audioTestRunning, audioThreadDone, audioTestThread, http,
                   sink, bytesReceived, elapsedMs, rx, nextTrack, statBytes>>

\* the condition of the drain loop
DsdPush(t) ==
    /\ thr[t].pc = "push" /\ IsDsd(t)
    /\ LET r == thr[t]
       IN  thr' = [thr EXCEPT ![t] =
                     IF r.opened /\ audioTestRunning
                     THEN [r EXCEPT !.pc = "wait"]
                     ELSE [r EXCEPT !.pc = "fin",
                                    !.sawCancel = @ \/ (r.opened
                                                        /\ ~audioTestRunning)]]
    /\ UNCHANGED <<audioTestRunning, audioThreadDone, audioTestThread, http,
                   sink, bytesReceived, elapsedMs, rx, nextTrack, statBytes>>

\* the wait for space has ended (or the flag was cleared): readPlanar, send
DsdPushChunk(t) ==
    /\ thr[t].pc = "wait" /\ IsDsd(t)
    /\ ~(audioTestRunning /\ (sink.paused \/ sink.level = HighWater))
    /\ \E lvl \in LevelsFrom(sink) :
       LET r == thr[t]
           rp == ReadPlanar(r.rd, r.s, DSD_PLANAR_BUF)
           pushed1 == r.pushed + rp.n
           brt == ByteRateTotal(r)
       IN  IF rp.n = 0
           THEN /\ lvl = sink.level
                /\ thr' = [thr EXCEPT ![t] =
                     [r EXCEPT !.rd = rp.rd,
                               !.sawCancel = @ \/ ~audioTestRunning,
                               !.pc = "fin"]]
                /\ UNCHANGED <<sink, elapsedMs>>
           ELSE /\ sink' = SinkSendAudio(sink, lvl)
                /\ elapsedMs' = IF brt > 0 THEN (pushed1 * 1000) \div brt
                                ELSE elapsedMs
                /\ thr' = [thr EXCEPT ![t] =
                     [r EXCEPT !.rd = rp.rd, !.pushed = pushed1,
                               !.sends = @ + 1,
                               !.sawCancel = @ \/ ~audioTestRunning,
                               !.pc = "push"]]
    /\ UNCHANGED <<audioTestRunning, audioThreadDone, audioTestThread, http,
                   bytesReceived, rx, nextTrack, statBytes>>

\* STMd, STMu, audioThreadDone
DsdFinish(t) ==
    /\ thr[t].pc = "fin" /\ IsDsd(t)
    /\ thr' = [thr EXCEPT ![t] =
                 [@ EXCEPT !.stats = @ \o <<"STMd", "STMu">>,
                           !.pc = "ended"]]
    /\ audioThreadDone' = TRUE
    /\ statBytes' = bytesReceived
    /\ UNCHANGED <<audioTestRunning, audioTestThread, http, sink,
                   bytesReceived, elapsedMs, rx, nextTrack>>

(***************************************************************************)
(* The program under a server that starts up to MaxTracks tracks and       *)
(* queries the status: the receive thread, the audio threads (joined,      *)
(* current or detached) and the Sink worker, interleaved.                  *)
(***************************************************************************)
Next ==
    \/ RxStart /\ UNCHANGED mvars
    \/ RxJoin /\ UNCHANGED mvars
    \/ RxDetach /\ UNCHANGED mvars
    \/ RxConnectFail /\ UNCHANGED mvars
    \/ RxConnectOk /\ UNCHANGED mvars
    \/ RxSpawn /\ UNCHANGED mvars
    \/ RxStatus /\ UNCHANGED mvars
    \/ SinkDrain /\ UNCHANGED mvars
    \/ (\E t \in Tracks : ThreadStart(t)) /\ UNCHANGED mvars
    \/ (\E t \in Tracks : PcmCheck(t)) /\ UNCHANGED mvars
    \/ (\E t \in Tracks : PcmBody(t)) /\ UNCHANGED mvars
    \/ (\E t \in Tracks : PcmOpen(t)) /\ UNCHANGED mvars
    \/ (\E t \in Tracks : PcmDrain(t)) /\ UNCHANGED mvars
    \/ (\E t \in Tracks : PcmPush(t)) /\ UNCHANGED mvars
    \/ (\E t \in Tracks : PcmPushChunk(t)) /\ UNCHANGED mvars
    \/ (\E t \in Tracks : PcmFinish(t)) /\ UNCHANGED mvars

Spec == Init /\ [][Next]_vars

(***************************************************************************)
(* The program under a server that starts one track and then sends stop,   *)
(* flush, pause, unpause and status commands in any order.                 *)
(***************************************************************************)
CmdStart == nextTrack = 1 /\ \E s \in CmdStreams : StartDispatch(s)

NextCmd ==
    \/ CmdStart /\ UNCHANGED mvars
    \/ RxConnectFail /\ UNCHANGED mvars
    \/ RxConnectOk /\ UNCHANGED mvars
    \/ RxSpawn /\ UNCHANGED mvars
    \/ RxStatus /\ UNCHANGED mvars
    \/ RxStopFlush /\ UNCHANGED mvars
    \/ RxPause /\ UNCHANGED mvars
    \/ RxUnpause /\ UNCHANGED mvars
    \/ SinkDrain /\ UNCHANGED mvars
    \/ (\E t \in Tracks : ThreadStart(t)) /\ UNCHANGED mvars
    \/ (\E t \in Tracks : PcmCheck(t)) /\ UNCHANGED mvars
    \/ (\E t \in Tracks : PcmBody(t)) /\ UNCHANGED mvars
    \/ (\E t \in Tracks : PcmOpen(t)) /\ UNCHANGED mvars
    \/ (\E t \in Tracks : PcmDrain(t)) /\ UNCHANGED mvars
    \/ (\E t \in Tracks : PcmPush(t)) /\ UNCHANGED mvars
    \/ (\E t \in Tracks : PcmFinish(t)) /\ UNCHANGED mvars
    \/ (\E t \in Tracks : DsdCheck(t)) /\ UNCHANGED mvars
    \/ (\E t \in Tracks : DsdBody(t)) /\ UNCHANGED mvars
    \/ (\E t \in Tracks : DsdOpen(t)) /\ UNCHANGED mvars
    \/ (\E t \in Tracks : DsdFlush(t)) /\ UNCHANGED mvars
    \/ (\E t \in Tracks : DsdDrain(t)) /\ UNCHANGED mvars
    \/ (\E t \in Tracks : DsdPush(t)) /\ UNCHANGED mvars
    \/ (\E t \in Tracks : DsdPushChunk(t)) /\ UNCHANGED mvars
    \/ (\E t \in Tracks : DsdFinish(t)) /\ UNCHANGED mvars

SpecCmd == Init /\ [][NextCmd]_vars

(***************************************************************************)
(* The program playing one PCM track to its end, no command interfering.   *)
(* Every thread that can take a step eventually takes it, and the Sink     *)
(* worker keeps draining the ring.  The loop that pushes what the cache    *)
(* holds after the main loop has nothing to push here: without a cleared   *)
(* flag the main loop ends on an empty cache.                              *)
(***************************************************************************)
PcmStart == nextTrack = 1 /\ \E s \in PcmStreams : StartDispatch(s)

PcmThread ==
    \E t \in Tracks :
        \/ ThreadStart(t)
        \/ PcmCheck(t)
        \/ PcmBody(t)
        \/ PcmOpen(t)
        \/ PcmDrain(t)
        \/ PcmPush(t)
        \/ PcmFinish(t)

NextPcm ==
    \/ PcmStart /\ UNCHANGED mvars
    \/ RxConnectFail /\ UNCHANGED mvars
    \/ RxConnectOk /\ UNCHANGED mvars
    \/ RxSpawn /\ UNCHANGED mvars
    \/ SinkDrain /\ UNCHANGED mvars
    \/ (\E t \in Tracks : ThreadStart(t)) /\ UNCHANGED mvars
    \/ (\E t \in Tracks : PcmCheck(t)) /\ UNCHANGED mvars
    \/ (\E t \in Tracks : PcmBody(t)) /\ UNCHANGED mvars
    \/ (\E t \in Tracks : PcmOpen(t)) /\ UNCHANGED mvars
    \/ (\E t \in Tracks : PcmDrain(t)) /\ UNCHANGED mvars
    \/ (\E t \in Tracks : PcmPush(t)) /\ UNCHANGED mvars
    \/ (\E t \in Tracks : PcmFinish(t)) /\ UNCHANGED mvars

SpecPcm ==
    /\ Init
    /\ [][NextPcm]_vars
    /\ WF_vars(PcmThread)
    /\ WF_vars(SinkDrain)

(***************************************************************************)
(* The same for one DSD track.                                             *)
(***************************************************************************)
DsdStart == nextTrack = 1 /\ \E s \in DsdStreams : StartDispatch(s)

DsdThread ==
    \E t \in Tracks :
        \/ ThreadStart(t)
        \/ DsdCheck(t)
        \/ DsdBody(t)
        \/ DsdOpen(t)
        \/ DsdFlush(t)
        \/ DsdDrain(t)
        \/ DsdPush(t)
        \/ DsdPushChunk(t)
        \/ DsdFinish(t)

NextDsd ==
    \/ DsdStart /\ UNCHANGED mvars
    \/ RxConnectFail /\ UNCHANGED mvars
    \/ RxConnectOk /\ UNCHANGED mvars
    \/ RxSpawn /\ UNCHANGED mvars
    \/ SinkDrain /\ UNCHANGED mvars
    \/ (\E t \in Tracks : ThreadStart(t)) /\ UNCHANGED mvars
    \/ (\E t \in Tracks : DsdCheck(t)) /\ UNCHANGED mvars
    \/ (\E t \in Tracks : DsdBody(t)) /\ UNCHANGED mvars
    \/ (\E t \in Tracks : DsdOpen(t)) /\ UNCHANGED mvars
    \/ (\E t \in Tracks : DsdFlush(t)) /\ UNCHANGED mvars
    \/ (\E t \in Tracks : DsdDrain(t)) /\ UNCHANGED mvars
    \/ (\E t \in Tracks : DsdPush(t)) /\ UNCHANGED mvars
    \/ (\E t \in Tracks : DsdPushChunk(t)) /\ UNCHANGED mvars
    \/ (\E t \in Tracks : DsdFinish(t)) /\ UNCHANGED mvars

SpecDsd ==
    /\ Init
    /\ [][NextDsd]_vars
    /\ WF_vars(DsdThread)
    /\ WF_vars(SinkDrain)

(***************************************************************************)
(* Properties.                                                             *)
(***************************************************************************)
InStats(t, e) == \E i \in 1..Len(thr[t].stats) : thr[t].stats[i] = e

\* the thread's last two STAT events are STMd, STMu in this order
EndsDU(t) ==
    LET n == Len(thr[t].stats)
    IN  n >= 2 /\ thr[t].stats[n - 1] = "STMd" /\ thr[t].stats[n] = "STMu"

\* a later stream-start has spawned its audio thread
Superseded(t) ==
    \E u \in Tracks : u > t /\ thr[u].pc \notin {"none", "nothread"}

DispatchReturns == rx.pc # "idle" /\ rx'.pc = "idle"

\* C1: once a stream-start has spawned a new audio thread, no earlier audio
\* thread reads the HTTP stream and updates the byte counter, pushes frames
\* or calls sendAudio again
C1_OneAudioThread ==
    [][\A t \in Tracks :
         Superseded(t) =>
             /\ thr'[t].totalBytes = thr[t].totalBytes
             /\ thr'[t].pushed = thr[t].pushed
             /\ thr'[t].sends = thr[t].sends]_vars

\* C2: after the STMf that answers a stop or flush, the track's audio thread
\* calls sendAudio no more and sends no further STAT event
C2_StoppedBeforeSTMf ==
    [][\A t \in Tracks :
         thr[t].acked =>
             /\ thr'[t].sends = thr[t].sends
             /\ thr'[t].stats = thr[t].stats]_vars

\* C3: a thread that has found audioTestRunning cleared sends neither STMd
\* nor STMu
C3_NoEndEventsWhenCancelled ==
    \A t \in Tracks :
        thr[t].sawCancel => ~InStats(t, "STMd") /\ ~InStats(t, "STMu")

\* C4: when a stream-start dispatch returns, the bytes_received the next STAT
\* frame would carry is 0, whether the HTTP connect succeeded or not
C4_BytesZeroAfterStart ==
    [][DispatchReturns => bytesReceived' = 0]_vars

\* C5: between the return of one stream-start dispatch and the return of the
\* next, the bytes_received of successive STAT frames never decreases
C5_StatBytesMonotone ==
    [][statBytes' >= statBytes \/ DispatchReturns]_vars

\* C6: DSD path: once the thread has seen HTTP EOF (no command cancels it,
\* the Sink is not paused and keeps draining), it eventually terminates
\* having sent STMd then STMu, with the reader told of EOF
C6_DsdEndsAfterEof ==
    \A t \in Tracks :
        (IsDsd(t) /\ thr[t].httpEof)
            ~> (thr[t].pc = "ended" /\ thr[t].rd.eof /\ EndsDU(t))

\* the PCM thread has ended the natural way: setEof called, the decoder
\* exhausted, no frame left in the cache, STMd then STMu sent
PcmEndedNaturally(t) ==
    /\ thr[t].pc = "ended"
    /\ thr[t].rd.eof
    /\ PcmReadDecoded(thr[t].rd, thr[t].s, MAX_DECODE_FRAMES).n = 0
    /\ CacheFrames(thr[t]) = 0
    /\ EndsDU(t)

\* C7 as stated: PCM path: once the thread has seen HTTP EOF (no command
\* cancels it, the Sink is not paused and keeps draining), it eventually
\* ends the natural way
C7_PcmEndsAfterEof ==
    \A t \in Tracks :
        (~IsDsd(t) /\ thr[t].httpEof) ~> PcmEndedNaturally(t)

\* C7: PCM path: once the thread has seen HTTP EOF (no command cancels it,
\* the Sink is not paused and keeps draining), it eventually ends the natural
\* way, unless the Sink open it attempts after EOF fails, which ends the
\* track with STMn
C7_PcmEndsAfterEofUnlessOpenFails ==
    \A t \in Tracks :
        (~IsDsd(t) /\ thr[t].httpEof)
            ~> (PcmEndedNaturally(t)
                \/ (thr[t].pc = "ended" /\ thr[t].fail = "open"
                    /\ thr[t].stmn = 1 /\ ~InStats(t, "STMd")))

C7_Witness ==
    \E t \in Tracks :
        /\ ~IsDsd(t) /\ thr[t].httpEof /\ PcmEndedNaturally(t)
        /\ thr[t].sends > 0 /\ thr[t].pushed > 0

\* C8: a thread that ended with its decoder or reader in the error state has
\* sent STMn
C8_ErrorGivesSTMn ==
    \A t \in Tracks :
        (thr[t].pc = "ended" /\ thr[t].rd.err) => InStats(t, "STMn")

\* C9: when a track has ended on a fatal path (Sink open failure, decoder or
\* reader error), close and stop have been called on the Sink
C9_FatalPathClosesSink ==
    \A t \in Tracks :
        (thr[t].pc = "ended" /\ (thr[t].fail = "open" \/ thr[t].rd.err))
            => {"close", "stop"} \subseteq sink.ops

\* the track's stream-start failed: no HTTP connection, no decoder for the
\* format character, or a Sink that did not open
TrackFailed(t) ==
    \/ thr[t].fail = "connect"
    \/ thr[t].pc = "ended" /\ thr[t].s.fmt \notin {"d", "f", "p"}
    \/ thr[t].fail = "open"

ParseMac(str) ==
    [ok |-> Len(str) = 6 /\ \A i \in 1..Len(str) : str[i] <= 255,
     mac |-> str]

\* a generateMac that mixes the connection count into the last byte
GenerateMacPerConnection(h) ==
    <<2, h[1], h[2], h[3], h[4], (h[5] + mainT.connectionCount) % 256>>

\* generateMac: locally administered first byte, then the five low bytes
\* of the hash
GenerateMac(h) == <<2, h[1], h[2], h[3], h[4], h[5]>>

\* buildCapabilities, for a build without the optional codecs
BuildCapabilities(cfg) ==
    [codecs |-> <<"flc", "pcm", "aif", "wav">>
                \o (IF cfg.dsdEnabled THEN <<"dsf", "dff">> ELSE <<>>),
     maxSampleRate |-> cfg.maxSampleRate,
     features |-> <<"Model=slim2diretta", "ModelName=slim2diretta",
                    "AccuratePlayPoints=1", "HasDigitalOut=1">>]

\* the MAC address connect() settles on, and whether it found one
ConnectMac(cfg) ==
    IF cfg.macAddress # <<>> THEN ParseMac(cfg.macAddress)
    ELSE [ok |-> TRUE, mac |-> GenerateMac(cfg.playerName)]

\* disconnect(): BYE! when connected, flags cleared, socket closed
ClientDisconnect(c) ==
    [c EXCEPT !.byes = IF c.connected THEN @ + 1 ELSE @,
              !.connected = FALSE, !.running = FALSE, !.sock = "none"]

\* stop(): m_running cleared, the socket shut down but not closed
ClientStop(c) ==
    [c EXCEPT !.running = FALSE,
              !.sock = IF @ = "open" THEN "shut" ELSE @]

(***************************************************************************)
(* The Sink's close and disable, from its contract.                        *)
(***************************************************************************)
SinkClose(k) ==
    [k EXCEPT !.open = FALSE, !.playing = FALSE, !.paused = FALSE,
              !.level = 0, !.ops = @ \cup {"close"}]

SinkDisable(k) ==
    [k EXCEPT !.open = FALSE, !.playing = FALSE, !.paused = FALSE,
              !.level = 0, !.ops = @ \cup {"disable"}]

(***************************************************************************)
(* Main thread: set-up, connection loop, stopAudioThread, final shutdown.  *)
(* Positions: "start", "loop", "sleep", "connect", "monitor", "saBegin",   *)
(* "saWait", "saStop" (the three parts of stopAudioThread, site telling    *)
(* which call it is), "disc", "joinRx", "finalDisc", "close", "closed",    *)
(* "exited".  Once main has returned the process and its threads are gone. *)
(***************************************************************************)
MaxAttempts == 7
MaxConnects == 2

Configs ==
    {DefaultConfig,
     [DefaultConfig EXCEPT !.macAddress = <<0, 17, 34, 51, 68, 85>>,
                           !.dsdEnabled = FALSE],
     [DefaultConfig EXCEPT !.macAddress = <<0, 17, 34>>],
     [DefaultConfig EXCEPT !.macAddress = <<0, 17, 34, 51, 68, 256>>]}

ProcessAlive == mainT.pc # "exited"

\* the doubling that forgets the cap
NextBackoffUncapped(b) == b * 2

\* backoffS after a wait
NextBackoff(b) == Min(b * 2, MAX_BACKOFF_S)

\* signalHandler: g_running cleared, SlimprotoClient::stop()
Signal ==
    /\ g_running /\ ProcessAlive
    /\ mainT.pc # "start"
    /\ g_running' = FALSE
    /\ client' = ClientStop(client)
    /\ UNCHANGED <<vars, unit, mainT, ctl, wire>>

\* the command line is parsed, the Sink enabled, the client created
Configure(cfgs) ==
    /\ mainT.pc = "start"
    /\ \E cfg \in cfgs :
         mainT' = [mainT EXCEPT !.config = cfg, !.pc = "loop"]
    /\ UNCHANGED <<vars, unit, g_running, client, ctl, wire>>

MainConfigure == Configure({DefaultConfig})

\* top of the connection loop
MainLoopTop ==
    /\ mainT.pc = "loop"
    /\ mainT' = IF ~g_running
                THEN [mainT EXCEPT !.pc = "saBegin", !.site = "final"]
                ELSE IF mainT.connectionCount > 0
                THEN [mainT EXCEPT !.pc = "sleep"]
                ELSE [mainT EXCEPT !.pc = "connect"]
    /\ UNCHANGED <<vars, unit, g_running, client, ctl, wire>>

\* interruptibleSleep(backoffS), then the doubling
MainSleep ==
    /\ mainT.pc = "sleep"
    /\ mainT' = IF ~g_running
                THEN [mainT EXCEPT !.pc = "saBegin", !.site = "final"]
                ELSE [mainT EXCEPT !.waits = Append(@, mainT.backoffS),
                                   !.backoffS = NextBackoff(@),
                                   !.pc = "connect"]
    /\ UNCHANGED <<vars, unit, g_running, client, ctl, wire>>

\* slimproto->connect returns false; at most limit calls are followed
ConnectFail(limit) ==
    /\ mainT.pc = "connect"
    /\ mainT.attempts < limit \/ ~g_running
    /\ mainT' = [mainT EXCEPT
                   !.connectionCount = IF g_running /\ @ = 0 THEN 1 ELSE @,
                   !.attempts = Min(@ + 1, limit),
                   !.pc = "loop"]
    /\ UNCHANGED <<vars, unit, g_running, client, ctl, wire>>

\* slimproto->connect succeeds (HELO, SETD); the receive thread is created
ConnectOk(limit) ==
    /\ mainT.pc = "connect"
    /\ mainT.attempts < limit
    /\ ConnectMac(mainT.config).ok
    /\ client' = [client EXCEPT
                    !.connected = TRUE, !.sock = "open",
                    !.peerClosed = FALSE,
                    !.mac = ConnectMac(mainT.config).mac,
                    !.helos = Append(@,
                        [mac |-> ConnectMac(mainT.config).mac,
                         caps |-> BuildCapabilities(mainT.config)]),
                    !.rxT = "spawned"]
    /\ mainT' = [mainT EXCEPT !.backoffS = INITIAL_BACKOFF_S,
                              !.connectionCount = @ + 1,
                              !.waits = <<>>,
                              !.attempts = @ + 1,
                              !.pc = "monitor"]
    /\ UNCHANGED <<vars, unit, g_running, ctl, wire>>

MainConnectFail == ConnectFail(MaxConnects)

MainConnectOk == ConnectOk(MaxConnects)

\* the loop that polls g_running and isConnected() ends
MainMonitor ==
    /\ mainT.pc = "monitor"
    /\ ~(g_running /\ client.connected)
    /\ mainT' = [mainT EXCEPT !.pc = "saBegin", !.site = "loop"]
    /\ UNCHANGED <<vars, unit, g_running, client, ctl, wire>>

\* stopAudioThread: flag cleared, HTTP stream disconnected (which shuts
\* down the socket of a connect the stream callback is blocked in)
StopAudioBegin ==
    /\ mainT.pc = "saBegin"
    /\ audioTestRunning' = FALSE
    /\ http' = HttpDisconnect(http)
    /\ wire' = [wire EXCEPT !.httpShut = @ \/ rx.pc = "connect"]
    /\ mainT' = [mainT EXCEPT !.pc = IF audioTestThread # 0 THEN "saWait"
                                     ELSE "saStop"]
    /\ UNCHANGED <<audioThreadDone, audioTestThread, sink, bytesReceived,
                   elapsedMs, rx, nextTrack, thr, statBytes>>
    /\ UNCHANGED <<unit, g_running, client, ctl>>

\* stopAudioThread: the thread set audioThreadDone within the second: join
StopAudioJoin ==
    /\ mainT.pc = "saWait"
    /\ audioThreadDone
    /\ thr[audioTestThread].pc = "ended"
    /\ audioTestThread' = 0
    /\ mainT' = [mainT EXCEPT !.pc = "saStop"]
    /\ UNCHANGED <<audioTestRunning, audioThreadDone, http, sink,
                   bytesReceived, elapsedMs, rx, nextTrack, thr, statBytes>>
    /\ UNCHANGED <<unit, g_running, client, ctl, wire>>

\* stopAudioThread: the second passed with audioThreadDone false: detach
StopAudioDetach ==
    /\ mainT.pc = "saWait"
    /\ ~audioThreadDone
    /\ audioTestThread' = 0
    /\ mainT' = [mainT EXCEPT !.pc = "saStop"]
    /\ UNCHANGED <<audioTestRunning, audioThreadDone, http, sink,
                   bytesReceived, elapsedMs, rx, nextTrack, thr, statBytes>>
    /\ UNCHANGED <<unit, g_running, client, ctl, wire>>

\* stopAudioThread: stopPlayback when the Sink plays
StopAudioStop ==
    /\ mainT.pc = "saStop"
    /\ sink' = (IF sink.playing THEN SinkStopPlayback(sink) ELSE sink)
    /\ mainT' = [mainT EXCEPT !.pc = IF mainT.site = "loop" THEN "disc"
                                     ELSE "finalDisc"]
    /\ UNCHANGED <<audioTestRunning, audioThreadDone, audioTestThread, http,
                   bytesReceived, elapsedMs, rx, nextTrack, thr, statBytes>>
    /\ UNCHANGED <<unit, g_running, client, ctl, wire>>

\* slimproto->disconnect(), in the loop and in the final shutdown
MainDisconnect ==
    /\ mainT.pc \in {"disc", "finalDisc"}
    /\ client' = ClientDisconnect(client)
    /\ mainT' = [mainT EXCEPT !.pc = IF mainT.pc = "disc" THEN "joinRx"
                                     ELSE "close"]
    /\ UNCHANGED <<vars, unit, g_running, ctl, wire>>

\* slimprotoThread.join() returns; the loop ends or goes on
MainJoinRx ==
    /\ mainT.pc = "joinRx"
    /\ client.rxT = "returned"
    /\ client' = [client EXCEPT !.rxT = "none"]
    /\ mainT' = IF ~g_running
                THEN [mainT EXCEPT !.pc = "saBegin", !.site = "final"]
                ELSE [mainT EXCEPT !.pc = "loop"]
    /\ UNCHANGED <<vars, unit, g_running, ctl, wire>>

\* close when the Sink is open, then disable
MainClose ==
    /\ mainT.pc = "close"
    /\ sink' = SinkDisable(IF sink.open THEN SinkClose(sink) ELSE sink)
    /\ mainT' = [mainT EXCEPT !.pc = "closed"]
    /\ UNCHANGED <<audioTestRunning, audioThreadDone, audioTestThread, http,
                   bytesReceived, elapsedMs, rx, nextTrack, thr, statBytes>>
    /\ UNCHANGED <<unit, g_running, client, ctl, wire>>

\* shutdownAsyncLogging, return 0
MainExit ==
    /\ mainT.pc = "closed"
    /\ mainT' = [mainT EXCEPT !.pc = "exited"]
    /\ UNCHANGED <<vars, unit, g_running, client, ctl, wire>>

(***************************************************************************)
(* Receive thread: SlimprotoClient::run around the stream callback.        *)
(***************************************************************************)
\* run() begins
RxRunBegin ==
    /\ client.rxT = "spawned" /\ ProcessAlive
    /\ client' = [client EXCEPT !.running = TRUE, !.rxT = "run"]
    /\ UNCHANGED <<vars, unit, g_running, mainT, ctl, wire>>

\* the loop can read a frame
RxReady ==
    /\ client.rxT = "run" /\ ProcessAlive
    /\ client.running /\ client.sock = "open" /\ ~client.peerClosed

\* m_running is found cleared or readExact fails: the loop ends
RxLoopEnd ==
    /\ client.rxT = "run" /\ ProcessAlive
    /\ rx.pc = "idle"
    /\ ~client.running \/ client.sock # "open" \/ client.peerClosed
    /\ client' = [client EXCEPT !.connected = FALSE, !.rxT = "returned"]
    /\ UNCHANGED <<vars, unit, g_running, mainT, ctl, wire>>

\* the server closes the control connection, or the connection is lost
PeerClose ==
    /\ client.sock = "open" /\ ~client.peerClosed /\ ProcessAlive
    /\ client' = [client EXCEPT !.peerClosed = TRUE]
    /\ UNCHANGED <<vars, unit, g_running, mainT, ctl, wire>>

(***************************************************************************)
(* The stream callback as the receive loop runs it, with the replies the   *)
(* client sends for the stream-start kept in wire.out.                     *)
(***************************************************************************)
MainStreams == {WavGood}

\* the replies after a successful HTTP connect, headers reported first
StartRepliesHeadersFirst == <<"STMh", "RESP", "STMc">>

\* the replies after a successful HTTP connect
StartReplies == <<"STMc", "RESP", "STMh">>

\* strm 's' read by the receive loop: the callback up to the HTTP connect
MainRxStart ==
    /\ RxReady
    /\ nextTrack = 1
    /\ \E s \in MainStreams : StartDispatch(s)
    /\ wire' = [wire EXCEPT !.out = <<>>, !.httpShut = FALSE]
    /\ UNCHANGED <<unit, g_running, mainT, client, ctl>>

\* the HTTP connect fails: STMn
MainStartFail ==
    /\ ProcessAlive
    /\ RxConnectFail
    /\ wire' = [wire EXCEPT !.out = Append(@, "STMn"), !.httpShut = FALSE]
    /\ UNCHANGED <<unit, g_running, mainT, client, ctl>>

\* the HTTP connect succeeds: STMc, RESP, STMh
MainStartOk ==
    /\ ProcessAlive
    /\ ~wire.httpShut
    /\ RxConnectOk
    /\ wire' = [wire EXCEPT !.out = @ \o StartReplies]
    /\ UNCHANGED <<unit, g_running, mainT, client, ctl>>

\* counters reset, the audio thread created
MainSpawn ==
    /\ ProcessAlive
    /\ RxSpawn
    /\ UNCHANGED mvars

MainSinkDrain == ProcessAlive /\ SinkDrain /\ UNCHANGED mvars

(***************************************************************************)
(* The whole program with one track: main thread, receive thread, audio    *)
(* thread and Sink worker, under a server that may refuse or drop the      *)
(* control connection and a user who may send the shutdown signal.  The    *)
(* loop that pushes what the cache holds after the main loop has nothing   *)
(* to push with a single track (the flag is never set again).              *)
(***************************************************************************)
NextMain ==
    \/ Signal
    \/ MainConfigure
    \/ MainLoopTop
    \/ MainSleep
    \/ MainConnectFail
    \/ MainConnectOk
    \/ MainMonitor
    \/ StopAudioBegin
    \/ StopAudioJoin
    \/ StopAudioDetach
    \/ StopAudioStop
    \/ MainDisconnect
    \/ MainJoinRx
    \/ MainClose
    \/ MainExit
    \/ RxRunBegin
    \/ RxLoopEnd
    \/ PeerClose
    \/ MainRxStart
    \/ MainStartFail
    \/ MainStartOk
    \/ MainSpawn
    \/ MainSinkDrain
    \/ ProcessAlive /\ (\E t \in Tracks : ThreadStart(t)) /\ UNCHANGED mvars
    \/ ProcessAlive /\ (\E t \in Tracks : PcmCheck(t)) /\ UNCHANGED mvars
    \/ ProcessAlive /\ (\E t \in Tracks : PcmBody(t)) /\ UNCHANGED mvars
    \/ ProcessAlive /\ (\E t \in Tracks : PcmOpen(t)) /\ UNCHANGED mvars
    \/ ProcessAlive /\ (\E t \in Tracks : PcmDrain(t)) /\ UNCHANGED mvars
    \/ ProcessAlive /\ (\E t \in Tracks : PcmPush(t)) /\ UNCHANGED mvars
    \/ ProcessAlive /\ (\E t \in Tracks : PcmFinish(t)) /\ UNCHANGED mvars

SpecMain == Init /\ [][NextMain]_allvars

(***************************************************************************)
(* The same program where every thread that can take a step eventually     *)
(* takes it: the main thread (its own connect call returns, the kernel     *)
(* bounding it), the receive thread between and after its blocking calls,  *)
(* the audio thread, the Sink worker.  A recv on a socket that was shut    *)
(* down returns.  Nothing is assumed of the peers: the servers may stay    *)
(* silent, and no signal need arrive.                                      *)
(***************************************************************************)
MainStep ==
    \/ MainConfigure
    \/ MainLoopTop
    \/ MainSleep
    \/ MainConnectFail
    \/ MainConnectOk
    \/ MainMonitor
    \/ StopAudioBegin
    \/ StopAudioJoin
    \/ StopAudioDetach
    \/ StopAudioStop
    \/ MainDisconnect
    \/ MainJoinRx
    \/ MainClose
    \/ MainExit

RxStep ==
    \/ RxRunBegin
    \/ RxLoopEnd
    \/ MainSpawn
    \/ wire.httpShut /\ MainStartFail

AudioStep ==
    /\ ProcessAlive
    /\ \E t \in Tracks :
        \/ ThreadStart(t)
        \/ PcmCheck(t)
        \/ PcmBody(t)
        \/ PcmOpen(t)
        \/ PcmDrain(t)
        \/ PcmPush(t)
        \/ PcmFinish(t)
    /\ UNCHANGED mvars

SpecMainFair ==
    /\ Init
    /\ [][NextMain]_allvars
    /\ WF_allvars(MainStep)
    /\ WF_allvars(RxStep)
    /\ WF_allvars(AudioStep)
    /\ WF_allvars(MainSinkDrain)

(***************************************************************************)
(* Sink control calls take time: a call is in progress from the moment     *)
(* the caller enters it until it returns.  The program of Spec (several    *)
(* tracks, threads joined or detached at the next stream-start) with the   *)
(* audio thread's open entered and left in two steps.                      *)
(***************************************************************************)
\* the audio thread enters direttaPtr->open
OpenCall(t) ==
    /\ thr[t].pc = "open" /\ ~IsDsd(t)
    /\ <<t, "open">> \notin ctl
    /\ ctl' = ctl \cup {<<t, "open">>}
    /\ UNCHANGED <<vars, unit, g_running, mainT, client, wire>>

\* direttaPtr->open returns
OpenReturn(t) ==
    /\ <<t, "open">> \in ctl
    /\ PcmOpen(t)
    /\ ctl' = ctl \ {<<t, "open">>}
    /\ UNCHANGED <<unit, g_running, mainT, client, wire>>

NextCtl ==
    \/ RxStart /\ UNCHANGED mvars
    \/ RxJoin /\ UNCHANGED mvars
    \/ RxDetach /\ UNCHANGED mvars
    \/ RxConnectFail /\ UNCHANGED mvars
    \/ RxConnectOk /\ UNCHANGED mvars
    \/ RxSpawn /\ UNCHANGED mvars
    \/ SinkDrain /\ UNCHANGED mvars
    \/ \E t \in Tracks : OpenCall(t)
    \/ \E t \in Tracks : OpenReturn(t)
    \/ (\E t \in Tracks : ThreadStart(t)) /\ UNCHANGED mvars
    \/ (\E t \in Tracks : PcmCheck(t)) /\ UNCHANGED mvars
    \/ (\E t \in Tracks : PcmBody(t)) /\ UNCHANGED mvars
    \/ (\E t \in Tracks : PcmDrain(t)) /\ UNCHANGED mvars
    \/ (\E t \in Tracks : PcmPush(t)) /\ UNCHANGED mvars
    \/ (\E t \in Tracks : PcmPushChunk(t)) /\ UNCHANGED mvars
    \/ (\E t \in Tracks : PcmFinish(t)) /\ UNCHANGED mvars

SpecCtl == Init /\ [][NextCtl]_allvars

(***************************************************************************)
(* The connection loop alone: no stream is started, the server refuses,    *)
(* accepts or drops the control connection, the user may send the signal.  *)
(* Up to MaxAttempts connect calls are followed.                           *)
(***************************************************************************)
BackoffConfigure == Configure(Configs)

BackoffConnectFail == ConnectFail(MaxAttempts)

BackoffConnectOk == ConnectOk(MaxAttempts)

NextLoop ==
    \/ Signal
    \/ BackoffConfigure
    \/ MainLoopTop
    \/ MainSleep
    \/ BackoffConnectFail
    \/ BackoffConnectOk
    \/ MainMonitor
    \/ StopAudioBegin
    \/ StopAudioStop
    \/ MainDisconnect
    \/ MainJoinRx
    \/ MainClose
    \/ MainExit
    \/ RxRunBegin
    \/ RxLoopEnd
    \/ PeerClose

SpecBackoff == Init /\ [][NextLoop]_allvars

(***************************************************************************)
(* The program while no shutdown is requested, under peers that answer:    *)
(* an HTTP connect returns, and of the connect calls that follow a lost    *)
(* control connection one succeeds (the last one the bound allows is       *)
(* never a failing one).  Every thread that can take a step eventually     *)
(* takes it.                                                               *)
(***************************************************************************)
ReconnectLimit == MaxConnects + 1

ValidConfigs == {cfg \in Configs : ConnectMac(cfg).ok}

ReconnectConfigure == Configure(ValidConfigs)

ReconnectFail == mainT.attempts < ReconnectLimit - 1 /\ ConnectFail(ReconnectLimit)

ReconnectOk == ConnectOk(ReconnectLimit)

\* the control connection is lost while a connect call is left
ReconnectPeerClose == mainT.attempts < ReconnectLimit /\ PeerClose

ReconnectMainStep ==
    \/ ReconnectConfigure
    \/ MainLoopTop
    \/ MainSleep
    \/ ReconnectFail
    \/ ReconnectOk
    \/ MainMonitor
    \/ StopAudioBegin
    \/ StopAudioJoin
    \/ StopAudioDetach
    \/ StopAudioStop
    \/ MainDisconnect
    \/ MainJoinRx

ReconnectRxStep ==
    \/ RxRunBegin
    \/ RxLoopEnd
    \/ MainStartFail
    \/ MainStartOk
    \/ MainSpawn

NextReconnect ==
    \/ ReconnectConfigure
    \/ MainLoopTop
    \/ MainSleep
    \/ ReconnectFail
    \/ ReconnectOk
    \/ MainMonitor
    \/ StopAudioBegin
    \/ StopAudioJoin
    \/ StopAudioDetach
    \/ StopAudioStop
    \/ MainDisconnect
    \/ MainJoinRx
    \/ RxRunBegin
    \/ RxLoopEnd
    \/ ReconnectPeerClose
    \/ MainRxStart
    \/ MainStartFail
    \/ MainStartOk
    \/ MainSpawn
    \/ MainSinkDrain
    \/ ProcessAlive /\ (\E t \in Tracks : ThreadStart(t)) /\ UNCHANGED mvars
    \/ ProcessAlive /\ (\E t \in Tracks : PcmCheck(t)) /\ UNCHANGED mvars
    \/ ProcessAlive /\ (\E t \in Tracks : PcmBody(t)) /\ UNCHANGED mvars
    \/ ProcessAlive /\ (\E t \in Tracks : PcmOpen(t)) /\ UNCHANGED mvars
    \/ ProcessAlive /\ (\E t \in Tracks : PcmDrain(t)) /\ UNCHANGED mvars
    \/ ProcessAlive /\ (\E t \in Tracks : PcmPush(t)) /\ UNCHANGED mvars
    \/ ProcessAlive /\ (\E t \in Tracks : PcmFinish(t)) /\ UNCHANGED mvars

SpecReconnect ==
    /\ Init
    /\ [][NextReconnect]_allvars
    /\ WF_allvars(ReconnectMainStep)
    /\ WF_allvars(ReconnectRxStep)
    /\ WF_allvars(AudioStep)
    /\ WF_allvars(MainSinkDrain)

(***************************************************************************)
(* Slimproto framing and dispatch, byte by byte.  A 32-bit value is kept   *)
(* as its two 16-bit halves.                                               *)
(***************************************************************************)
U32(n) == [hi |-> n \div 65536, lo |-> n % 65536]

\* ntohs / htons: two bytes in network order and the 16-bit value
Ntohs(b) == b[1] * 256 + b[2]

Htons(v) == <<v \div 256, v % 256>>

\* ntohl: four bytes in network order to the 32-bit value
Ntohl(b) == [hi |-> b[1] * 256 + b[2], lo |-> b[3] * 256 + b[4]]

\* a conversion that leaves the bytes in little-endian host order
HtonlHostOrder(v) == <<v.lo % 256, v.lo \div 256, v.hi % 256, v.hi \div 256>>

\* htonl: the 32-bit value to four bytes in network order
Htonl(v) == <<v.hi \div 256, v.hi % 256, v.lo \div 256, v.lo % 256>>

SLIMPROTO_HTTP_PORT == 9000

STRM_START == 115
STRM_STOP == 113
STRM_PAUSE == 112
STRM_UNPAUSE == 117
STRM_FLUSH == 102
STRM_STATUS == 116
STRM_SKIP == 97

sizeofStrmCommand == 24
sizeofAudgCommand == 18
sizeofStatPayload == 53

\* the opcodes processServerMessage compares with, and those of the
\* frames the client sends
Op ==
    [strm |-> <<115, 116, 114, 109>>,
     audg |-> <<97, 117, 100, 103>>,
     setd |-> <<115, 101, 116, 100>>,
     serv |-> <<115, 101, 114, 118>>,
     vers |-> <<118, 101, 114, 115>>,
     aude |-> <<97, 117, 100, 101>>,
     display |-> {<<118, 102, 100, 99>>, <<103, 114, 102, 101>>,
                  <<103, 114, 102, 98>>},
     STAT |-> <<83, 84, 65, 84>>,
     SETD |-> <<83, 69, 84, 68>>]

STMt == <<83, 84, 77, 116>>

\* a StrmCommand with the server port read two bytes further on
StrmCommandPortAt20(data) ==
    [command |-> data[1], autostart |-> data[2], format |-> data[3],
     pcmSampleSize |-> data[4], pcmSampleRate |-> data[5],
     pcmChannels |-> data[6], pcmEndian |-> data[7],
     threshold |-> data[8], spdifEnable |-> data[9],
     transPeriod |-> data[10], transType |-> data[11],
     flags |-> data[12], outputThreshold |-> data[13],
     reserved |-> data[14],
     replayGainOrInterval |-> SubSeq(data, 15, 18),
     serverPort |-> SubSeq(data, 21, 22),
     serverIp |-> SubSeq(data, 21, 24)]

\* memcpy of the first 24 bytes into the packed StrmCommand
StrmCommand(data) ==
    [command |-> data[1], autostart |-> data[2], format |-> data[3],
     pcmSampleSize |-> data[4], pcmSampleRate |-> data[5],
     pcmChannels |-> data[6], pcmEndian |-> data[7],
     threshold |-> data[8], spdifEnable |-> data[9],
     transPeriod |-> data[10], transType |-> data[11],
     flags |-> data[12], outputThreshold |-> data[13],
     reserved |-> data[14],
     replayGainOrInterval |-> SubSeq(data, 15, 18),
     serverPort |-> SubSeq(data, 19, 20),
     serverIp |-> SubSeq(data, 21, 24)]

getReplayGain(cmd) == Ntohl(cmd.replayGainOrInterval)

getServerPort(cmd) == Ntohs(cmd.serverPort)

\* the port the stream callback connects to
StreamPort(cmd) ==
    IF getServerPort(cmd) = 0 THEN SLIMPROTO_HTTP_PORT
    ELSE getServerPort(cmd)

sampleRateFromCode(code) ==
    CASE code = 48 -> 11025
      [] code = 49 -> 22050
      [] code = 50 -> 32000
      [] code = 51 -> 44100
      [] code = 52 -> 48000
      [] code = 53 -> 8000
      [] code = 54 -> 12000
      [] code = 55 -> 16000
      [] code = 56 -> 24000
      [] code = 57 -> 96000
      [] OTHER -> 0

\* the channel count the audio thread derives from the code
ChannelsFromCode(code) == IF code = 50 THEN 2 ELSE IF code = 49 THEN 1 ELSE 0

\* a sendMessage whose length field also counts the opcode
SendMessageCountingOpcode(opcode, payload) ==
    opcode \o Htonl(U32(Len(payload) + 4)) \o payload

\* sendMessage: opcode, length of the payload, payload
SendMessage(opcode, payload) ==
    opcode \o Htonl(U32(Len(payload))) \o payload

\* the StatPayload sendStat fills in, field by field
StatPayload(eventCode, serverTimestamp, jiffies) ==
    eventCode                      \* eventCode
    \o <<0>>                       \* crlf
    \o <<0>>                       \* masInit
    \o <<0>>                       \* masMode
    \o Htonl(U32(0))               \* streamBufSize
    \o Htonl(U32(0))               \* streamBufFull
    \o Htonl(U32(0))               \* bytesRecvHi
    \o Htonl(U32(bytesReceived))   \* bytesRecvLo
    \o Htons(65535)                \* signalStrength
    \o Htonl(jiffies)              \* jiffies
    \o Htonl(U32(0))               \* outputBufSize
    \o Htonl(U32(0))               \* outputBufFull
    \o Htonl(U32(elapsedMs \div 1000)) \* elapsedSeconds
    \o Htons(0)                    \* voltage
    \o Htonl(U32(elapsedMs))       \* elapsedMs
    \o Htonl(serverTimestamp)      \* serverTimestamp
    \o Htons(0)                    \* errorCode

SendStat(eventCode, serverTimestamp, jiffies) ==
    SendMessage(Op.STAT, StatPayload(eventCode, serverTimestamp, jiffies))

\* what a handler does: frames sent, callbacks invoked, the line it logs
Handled(sent, stream, volume, log) ==
    [sent |-> sent, stream |-> stream, volume |-> volume, log |-> log]

\* a handleStrm whose default case falls through to the callback
HandleStrmDefaultBreak(data, jiffies) ==
    IF Len(data) < sizeofStrmCommand
    THEN Handled(<<>>, <<>>, <<>>, "strm too short")
    ELSE LET cmd == StrmCommand(data)
             httpRequest == SubSeq(data, sizeofStrmCommand + 1, Len(data))
         IN  CASE cmd.command = STRM_STATUS ->
                    Handled(<<SendStat(STMt, getReplayGain(cmd), jiffies)>>,
                            <<>>, <<>>, "none")
               [] OTHER ->
                    Handled(<<>>,
                            <<[cmd |-> cmd, httpRequest |-> httpRequest]>>,
                            <<>>, "strm")

\* handleStrm
HandleStrm(data, jiffies) ==
    IF Len(data) < sizeofStrmCommand
    THEN Handled(<<>>, <<>>, <<>>, "strm too short")
    ELSE LET cmd == StrmCommand(data)
             httpRequest == SubSeq(data, sizeofStrmCommand + 1, Len(data))
         IN  CASE cmd.command = STRM_STATUS ->
                    Handled(<<SendStat(STMt, getReplayGain(cmd), jiffies)>>,
                            <<>>, <<>>, "none")
               [] cmd.command \in {STRM_START, STRM_STOP, STRM_PAUSE,
                                   STRM_UNPAUSE, STRM_FLUSH, STRM_SKIP} ->
                    Handled(<<>>,
                            <<[cmd |-> cmd, httpRequest |-> httpRequest]>>,
                            <<>>, "strm")
               [] OTHER ->
                    Handled(<<>>, <<>>, <<>>, "Unknown strm command")

HandleAudg(data) ==
    IF Len(data) < sizeofAudgCommand
    THEN Handled(<<>>, <<>>, <<>>, "audg too short")
    ELSE Handled(<<>>, <<>>,
                 <<[gainL |-> Ntohl(SubSeq(data, 11, 14)),
                    gainR |-> Ntohl(SubSeq(data, 15, 18))]>>, "audg")

HandleSetd(data, cfg) ==
    IF Len(data) < 1 THEN Handled(<<>>, <<>>, <<>>, "none")
    ELSE IF data[1] = 0 /\ Len(data) > 1
    THEN Handled(<<>>, <<>>, <<>>, "Player name set")
    ELSE IF data[1] = 0 /\ Len(data) = 1
    THEN Handled(<<SendMessage(Op.SETD, <<0>> \o cfg.playerName)>>,
                 <<>>, <<>>, "setd sent")
    ELSE Handled(<<>>, <<>>, <<>>, "setd id")

ProcessServerMessage(opcode, data, cfg, jiffies) ==
    CASE opcode = Op.strm -> HandleStrm(data, jiffies)
      [] opcode = Op.audg -> HandleAudg(data)
      [] opcode = Op.setd -> HandleSetd(data, cfg)
      [] opcode = Op.serv ->
           Handled(<<>>, <<>>, <<>>,
                   IF Len(data) >= 4 THEN "Server redirect" ELSE "none")
      [] opcode = Op.vers -> Handled(<<>>, <<>>, <<>>, "LMS version")
      [] opcode = Op.aude -> Handled(<<>>, <<>>, <<>>, "aude received")
      [] opcode \in Op.display -> Handled(<<>>, <<>>, <<>>, "none")
      [] OTHER -> Handled(<<>>, <<>>, <<>>, "Unknown command")

\* the frame at the head of the bytes the receive loop has not read yet:
\* the length it reads first, and opcode and payload when the length is
\* at least 4
Inbound(bytes) ==
    LET frameLen == Ntohs(SubSeq(bytes, 1, 2))
    IN  [frameLen |-> frameLen,
         opcode |-> IF frameLen < 4 THEN <<>> ELSE SubSeq(bytes, 3, 6),
         payload |-> IF frameLen < 4 THEN <<>>
                     ELSE SubSeq(bytes, 7, 2 + frameLen),
         rest |-> IF frameLen < 4 THEN SubSeq(bytes, 3, Len(bytes))
                  ELSE SubSeq(bytes, 3 + frameLen, Len(bytes))]

\* readExact can return everything one pass of the loop asks for
CanRead(bytes) ==
    /\ Len(bytes) >= 2
    /\ Ntohs(SubSeq(bytes, 1, 2)) < 4
       \/ Len(bytes) >= 2 + Ntohs(SubSeq(bytes, 1, 2))

Jiffies == {U32(0), U32(100000)}

\* one pass of the receive loop: length, opcode, payload, dispatch, with
\* callbacks that record their arguments
RxFrame ==
    /\ RxReady
    /\ rx.pc = "idle"
    /\ CanRead(wire.frame)
    /\ LET in == Inbound(wire.frame)
       IN  IF in.frameLen < 4
           THEN wire' = [wire EXCEPT !.frame = in.rest,
                                     !.log = "Invalid frame length"]
           ELSE \E jiffies \in Jiffies :
                  LET h == ProcessServerMessage(in.opcode, in.payload,
                                                mainT.config, jiffies)
                  IN  wire' = [wire EXCEPT !.frame = in.rest,
                                           !.out = @ \o h.sent,
                                           !.streamCb = @ \o h.stream,
                                           !.volumeCb = @ \o h.volume,
                                           !.log = h.log]
    /\ UNCHANGED <<vars, unit, g_running, mainT, client, ctl>>

(***************************************************************************)
(* The server's side of the control connection: the frames it may send.    *)
(***************************************************************************)
MaxFrames == 3

\* server to client: 2-byte length of what follows, opcode, payload
ServerFrame(opcode, payload) == Htons(4 + Len(payload)) \o opcode \o payload

\* the first 24 bytes of a strm payload
StrmHead(command, interval, port, ip) ==
    <<command, 49, 102, 51, 51, 50, 48, 32, 32, 32, 0, 0, 0, 0>>
    \o interval \o port \o ip

S5Head ==
    <<115, 49, 102, 51, 51, 50, 48, 32, 32, 32, 0, 0, 0, 0,
      0, 0, 0, 0, 0, 0, 35, 40, 0, 0>>

HttpGet == <<71, 69, 84, 32, 47>>

Timestamps == {<<222, 173, 190, 239>>, <<0, 0, 0, 1>>}

ShortLengthFrames == {<<0, 0>>, <<0, 2, 0, 0>>, <<0, 3, 0, 4, 115>>}

ServerFrames ==
    {ServerFrame(Op.strm, S5Head \o req) : req \in {<<>>, HttpGet}}
    \cup {ServerFrame(Op.strm, StrmHead(STRM_START, <<0, 0, 0, 0>>,
                                       <<35, 40>>, <<0, 0, 0, 0>>)
                              \o HttpGet)}
    \cup {ServerFrame(Op.strm, StrmHead(STRM_STATUS, ts, <<0, 0>>,
                                       <<0, 0, 0, 0>>)) : ts \in Timestamps}
    \cup {ServerFrame(Op.strm, StrmHead(c, <<0, 0, 0, 0>>, <<0, 0>>,
                                       <<0, 0, 0, 0>>)) : c \in {STRM_STOP, 120}}
    \cup {ServerFrame(Op.strm, <<115, 49, 102>>)}
    \cup {ServerFrame(<<120, 120, 120, 120>>, <<1, 2>>)}
    \cup ShortLengthFrames
    \cup {ServerFrame(Op.audg, <<0, 0, 0, 128, 0, 0, 0, 128, 1, 0,
                                0, 1, 0, 0, 0, 1, 0, 0>>),
          ServerFrame(Op.audg, <<0, 0, 0, 128>>)}
    \cup {ServerFrame(Op.setd, <<0>>), ServerFrame(Op.setd, <<0, 65, 0>>)}
    \cup {ServerFrame(Op.vers, <<56>>), ServerFrame(Op.aude, <<1, 1>>)}

ServerSend ==
    /\ client.sock = "open" /\ ~client.peerClosed
    /\ wire.n < MaxFrames
    /\ \E f \in ServerFrames :
         wire' = [wire EXCEPT !.frame = @ \o f, !.n = @ + 1]
    /\ UNCHANGED <<vars, unit, g_running, mainT, client, ctl>>

ProtoConnect == ConnectOk(1)

NextProto ==
    \/ MainConfigure
    \/ MainLoopTop
    \/ ProtoConnect
    \/ RxRunBegin
    \/ ServerSend
    \/ RxFrame

SpecProto == Init /\ [][NextProto]_allvars

(***************************************************************************)
(* HttpStreamClient::read over a body with ICY metadata.  A byte of the    *)
(* body is a pair: its value, which is all the client looks at, and        *)
(* whether the server sent it as audio.                                    *)
(***************************************************************************)
MaxMetaInt == 3
MaxAudio == 5

Take(s, n) == SubSeq(s, 1, n)

Drop(s, n) == SubSeq(s, n + 1, Len(s))

\* skipIcyMetadata with the length byte taken as the number of bytes
MetaLenUnscaled(lenByte) == lenByte

\* skipIcyMetadata: metaLen
MetaLen(lenByte) == lenByte * 16

\* the body a server sends for n audio bytes with interval m: after every
\* whole window of m audio bytes a length byte and 16 times as many
\* metadata bytes (after the last window only when tailMeta); lens[k] is
\* the length byte behind window k
RECURSIVE IcyBodyFrom(_, _, _, _, _)
IcyBodyFrom(i, m, n, lens, tailMeta) ==
    IF i > n THEN <<>>
    ELSE IF m = 0 THEN [j \in 1..n |-> <<100 + j, TRUE>>]
    ELSE LET w == Min(m, n - i + 1)
             k == ((i - 1) \div m) + 1
             window == [j \in 1..w |-> <<100 + i + j - 1, TRUE>>]
             meta == IF w = m /\ (i + w <= n \/ tailMeta)
                     THEN <<<<lens[k], FALSE>>>>
                          \o [j \in 1..(16 * lens[k]) |-> <<1, FALSE>>]
                     ELSE <<>>
         IN  window \o meta \o IcyBodyFrom(i + w, m, n, lens, tailMeta)

\* the bodies read, whole or with the connection lost cut bytes early
IcyBodies(m) ==
    {Take(IcyBodyFrom(1, m, n, lens, tailMeta),
          Max(0, Len(IcyBodyFrom(1, m, n, lens, tailMeta)) - cut)) :
        n \in 0..MaxAudio, lens \in [1..MaxAudio -> {0, 1}],
        tailMeta \in BOOLEAN, cut \in {0, 9}}

\* the client after parseResponseHeaders has read the headers byte by byte
IcyConnected(m, body) ==
    [kind |-> "icy", icyMetaInt |-> m, icyBytesUntilMeta |-> m,
     sock |-> body, body |-> body, connected |-> TRUE, out |-> <<>>,
     ret |-> 0, reads |-> 0]

IcyInit ==
    /\ ProgramInit
    /\ \E m \in 0..MaxMetaInt : \E body \in IcyBodies(m) :
         unit = IcyConnected(m, body)

\* readRaw(buf, maxLen): some bytes, or 0 at the end of the body
\* (m_connected cleared), or 0 for EINTR
ReadRaw(u, maxLen) ==
    {[n |-> k, u |-> [u EXCEPT !.sock = Drop(@, k),
                               !.out = @ \o Take(u.sock, k)]]
       : k \in 1..Min(maxLen, Len(u.sock))}
    \cup {[n |-> 0, u |-> IF u.sock = <<>>
                          THEN [u EXCEPT !.connected = FALSE] ELSE u]}

\* skipIcyMetadata: the length byte, then the metadata read and discarded
SkipIcyMetadata(u) ==
    IF u.sock = <<>>
    THEN [ok |-> FALSE, u |-> [u EXCEPT !.connected = FALSE]]
    ELSE LET metaLen == MetaLen(u.sock[1][1])
             rest == Drop(u.sock, 1)
         IN  IF metaLen > Len(rest)
             THEN [ok |-> FALSE,
                   u |-> [u EXCEPT !.sock = <<>>, !.connected = FALSE]]
             ELSE [ok |-> TRUE, u |-> [u EXCEPT !.sock = Drop(rest, metaLen)]]

\* HttpStreamClient::read(buf, maxLen): the values it can return and the
\* client each leaves
IcyReadOutcomes(u, maxLen) ==
    IF u.icyMetaInt = 0 THEN ReadRaw(u, maxLen)
    ELSE LET atMeta == Min(maxLen, u.icyBytesUntilMeta) = 0
             sk == IF atMeta THEN SkipIcyMetadata(u) ELSE [ok |-> TRUE, u |-> u]
             u1 == IF atMeta
                   THEN [sk.u EXCEPT !.icyBytesUntilMeta = u.icyMetaInt]
                   ELSE u
             canRead == Min(maxLen, u1.icyBytesUntilMeta)
         IN  IF ~sk.ok THEN {[n |-> -1, u |-> sk.u]}
             ELSE {[n |-> o.n,
                    u |-> [o.u EXCEPT !.icyBytesUntilMeta = @ - o.n]]
                     : o \in ReadRaw(u1, canRead)}

IcyReadLens == 1..(MaxMetaInt + 1)

MaxIcyReads == 12

\* one call of read
IcyRead ==
    /\ unit.kind = "icy" /\ unit.reads < MaxIcyReads
    /\ \E maxLen \in IcyReadLens :
       \E o \in IcyReadOutcomes(unit, maxLen) :
         unit' = [o.u EXCEPT !.ret = o.n, !.reads = @ + 1]
    /\ UNCHANGED <<vars, g_running, mainT, client, ctl, wire>>

NextIcy == IcyRead

SpecIcy == IcyInit /\ [][NextIcy]_allvars

(***************************************************************************)
\* ---------------------------------------------------------------------------
\* The container PCM decoder taken by itself, byte for byte.  A stream is the
\* list of its source samples, their depth N, and the bytes a WAV or AIFF
\* writer (or a raw sender) lays them out in; the decoder is the record of
\* PcmDecoder's members.  Offsets are zero-based as in the code; the byte at
\* offset i of a buffer p is p[i + 1].  Sizes are kept below 2^31.
\* ---------------------------------------------------------------------------
Fourcc == [RIFF |-> <<82, 73, 70, 70>>, WAVE |-> <<87, 65, 86, 69>>,
           fmt |-> <<102, 109, 116, 32>>, data |-> <<100, 97, 116, 97>>,
           FORM |-> <<70, 79, 82, 77>>, AIFF |-> <<65, 73, 70, 70>>,
           AIFC |-> <<65, 73, 70, 67>>, COMM |-> <<67, 79, 77, 77>>,
           SSND |-> <<83, 83, 78, 68>>, DSD |-> <<68, 83, 68, 32>>,
           FRM8 |-> <<70, 82, 77, 56>>, FVER |-> <<70, 86, 69, 82>>,
           PROP |-> <<80, 82, 79, 80>>, SND |-> <<83, 78, 68, 32>>,
           FS |-> <<70, 83, 32, 32>>, CHNL |-> <<67, 72, 78, 76>>,
           CMPR |-> <<67, 77, 80, 82>>]

At(p, i) == SubSeq(p, i + 1, i + 4)
readLE16(p, i) == p[i + 1] + p[i + 2] * 256
readLE32(p, i) == p[i + 1] + p[i + 2] * 256 + p[i + 3] * 65536 + p[i + 4] * 16777216
readBE16(p, i) == p[i + 1] * 256 + p[i + 2]
readBE32(p, i) == p[i + 1] * 16777216 + p[i + 2] * 65536 + p[i + 3] * 256 + p[i + 4]

\* What a writer does: the k-th byte of the two's complement value v.
ByteOf(v, k) ==
    IF k >= 4 THEN (IF v < 0 THEN 255 ELSE 0) ELSE (v \div (2 ^ (8 * k))) % 256
LE(v, n) == [k \in 1..n |-> ByteOf(v, k - 1)]
BE(v, n) == [k \in 1..n |-> ByteOf(v, n - k)]
RECURSIVE Flatten(_)
Flatten(ss) == IF ss = <<>> THEN <<>> ELSE Head(ss) \o Flatten(Tail(ss))
\* A sample of depth N sits left-justified in its container of cb bytes.
EncodeSamples(samples, N, cb, bigEndian) ==
    Flatten([i \in 1..Len(samples) |->
                IF bigEndian THEN BE(samples[i] * 2 ^ (8 * cb - N), cb)
                             ELSE LE(samples[i] * 2 ^ (8 * cb - N), cb)])

AIFF_MIN_HEADER == 46
WAVE_FORMAT_EXTENSIBLE == 65534

\* A 44-byte canonical WAV header, or the 68-byte extensible one when
\* validBits > 0; declared is the data chunk's size field.
WavHeader(channels, cb, validBits, declared) ==
    LET fmtBody == LE(IF validBits > 0 THEN WAVE_FORMAT_EXTENSIBLE ELSE 1, 2)
                   \o LE(channels, 2) \o LE(44100, 4)
                   \o LE(44100 * cb * channels, 4) \o LE(cb * channels, 2)
                   \o LE(8 * cb, 2)
        ext == LE(22, 2) \o LE(validBits, 2) \o LE(0, 4) \o LE(1, 2)
               \o <<0, 0, 0, 0, 16, 0, 128, 0, 0, 170, 0, 56, 155, 113>>
        body == IF validBits > 0 THEN fmtBody \o ext ELSE fmtBody
    IN  Fourcc.RIFF \o LE(4 + 8 + Len(body) + 8 + declared, 4) \o Fourcc.WAVE
        \o Fourcc.fmt \o LE(Len(body), 4) \o body
        \o Fourcc.data \o LE(declared, 4)

\* An AIFF header: FORM, COMM (18 bytes), SSND with its offset and blockSize
\* fields, then offset pad bytes before the first sample.
AiffHeader(channels, bits, frames, offset, declared) ==
    Fourcc.FORM \o BE(4 + 26 + 16 + declared, 4) \o Fourcc.AIFF
    \o Fourcc.COMM \o BE(18, 4) \o BE(channels, 2) \o BE(frames, 4)
    \o BE(bits, 2) \o <<64, 14, 172, 68, 0, 0, 0, 0, 0, 0>>
    \o Fourcc.SSND \o BE(declared + 8, 4) \o BE(offset, 4) \o BE(0, 4)
    \o [k \in 1..offset |-> 170]

NoHint == [bitDepth |-> 0, channels |-> 0, bigEndian |-> FALSE]
PcmStream(id, samples, N, channels, bytes, declared, hint) ==
    [id |-> id, samples |-> samples, N |-> N, channels |-> channels,
     bytes |-> bytes, declared |-> declared, hint |-> hint]

WavStream(id, samples, N, cb, validBits, channels, declared, present) ==
    PcmStream(id, samples, N, channels,
              WavHeader(channels, cb, validBits, declared)
              \o Take(EncodeSamples(samples, N, cb, FALSE) \o <<1, 2, 3>>, present),
              declared, NoHint)
AiffStream(id, samples, N, cb, channels, offset) ==
    PcmStream(id, samples, N, channels,
              AiffHeader(channels, N, Len(samples) \div channels, offset,
                         offset + cb * Len(samples))
              \o EncodeSamples(samples, N, cb, TRUE),
              offset + cb * Len(samples), NoHint)
RawStream(id, samples, N, cb, channels, bigEndian, extra) ==
    PcmStream(id, samples, N, channels,
              EncodeSamples(samples, N, cb, bigEndian) \o extra, 0,
              [bitDepth |-> N, channels |-> channels, bigEndian |-> bigEndian])

PcmByteStreams ==
    { WavStream("wav16", <<1, -2, 300, -32768>>, 16, 2, 0, 2, 8, 8),
      WavStream("wav8", <<-128, 127, 5>>, 8, 1, 0, 1, 3, 3),
      WavStream("wav24", <<-8388608, 70000>>, 24, 3, 0, 1, 6, 6),
      WavStream("wav32", <<-2147483647, 65537>>, 32, 4, 0, 1, 8, 8),
      WavStream("wav20in24", <<-524288, 4660>>, 20, 3, 20, 1, 6, 6),
      WavStream("wavTrailer", <<7, -7>>, 16, 2, 0, 1, 4, 7),
      WavStream("wavCut", <<7, -7, 9>>, 16, 2, 0, 1, 6, 5),
      AiffStream("aiff16", <<1, -2, 300, -32768>>, 16, 2, 2, 0),
      AiffStream("aiff24", <<-8388608, 70000>>, 24, 3, 1, 0),
      AiffStream("aiffOffset", <<258, -3, 77>>, 16, 2, 1, 2),
      RawStream("raw16", <<5, -6, 1000, -1000>>, 16, 2, 2, FALSE, <<>>),
      RawStream("raw16odd", <<5, -6>>, 16, 2, 2, FALSE, <<9>>),
      RawStream("raw24be", <<-8388608, 70000>>, 24, 3, 1, TRUE, <<>>) }

PcmDecoderNew ==
    [m_state |-> "DETECT", m_headerBuf |-> <<>>, m_dataBuf |-> <<>>,
     bitDepth |-> 0, channels |-> 0, m_bigEndian |-> FALSE,
     m_dataRemaining |-> 0, m_rawPcmConfigured |-> FALSE, m_eof |-> FALSE,
     m_error |-> FALSE, m_finished |-> FALSE]

PcmDecoder_setRawPcmFormat(d, hint) ==
    [d EXCEPT !.bitDepth = hint.bitDepth, !.channels = hint.channels,
              !.m_bigEndian = hint.bigEndian, !.m_rawPcmConfigured = TRUE]

PcmDecoder_flush(d) == PcmDecoderNew

PcmDecoder_feed(d, data) ==
    IF d.m_state \in {"DETECT", "PARSE_WAV", "PARSE_AIFF"}
    THEN [d EXCEPT !.m_headerBuf = @ \o data]
    ELSE IF d.m_state = "DATA" THEN [d EXCEPT !.m_dataBuf = @ \o data]
    ELSE d

PcmDecoder_setEof(d) == [d EXCEPT !.m_eof = TRUE]

PcmFail(d) == [d EXCEPT !.m_state = "ERROR", !.m_error = TRUE]

PcmDecoder_detectContainer(d) ==
    IF Len(d.m_headerBuf) < 4 THEN d
    ELSE IF At(d.m_headerBuf, 0) = Fourcc.RIFF THEN [d EXCEPT !.m_state = "PARSE_WAV"]
    ELSE IF At(d.m_headerBuf, 0) = Fourcc.FORM THEN [d EXCEPT !.m_state = "PARSE_AIFF"]
    ELSE IF d.m_rawPcmConfigured
    THEN [d EXCEPT !.m_dataRemaining = 0, !.m_dataBuf = @ \o d.m_headerBuf,
                   !.m_headerBuf = <<>>, !.m_state = "DATA"]
    ELSE PcmFail(d)

\* The chunk walks of parseWavHeader and parseAiffHeader: res is "more"
\* (return false, state kept), "error" or "ok".
ChunkScan0 == [res |-> "more", foundFmt |-> FALSE, foundData |-> FALSE,
               channels |-> 0, bitDepth |-> 0, dataRemaining |-> 0, dataStart |-> 0]

RECURSIVE WavChunks(_, _, _)
WavChunks(p, pos, acc) ==
    IF pos + 8 > Len(p) THEN acc
    ELSE
    LET chunkSize == readLE32(p, pos + 4)
        next(a) == IF a.foundFmt /\ a.foundData THEN [a EXCEPT !.res = "ok"]
                   ELSE WavChunks(p, pos + 8 + chunkSize + (chunkSize % 2), a)
    IN  IF At(p, pos) = Fourcc.fmt
        THEN IF pos + 8 + chunkSize > Len(p) THEN acc
             ELSE LET isExtensible == readLE16(p, pos + 8) = WAVE_FORMAT_EXTENSIBLE
                      audioFormat == IF isExtensible THEN readLE16(p, pos + 8 + 24)
                                     ELSE readLE16(p, pos + 8)
                      validBits == readLE16(p, pos + 8 + 18)
                  IN  IF isExtensible /\ chunkSize < 40 THEN [acc EXCEPT !.res = "error"]
                      ELSE IF audioFormat \notin {1, 3} THEN [acc EXCEPT !.res = "error"]
                      ELSE next([acc EXCEPT !.foundFmt = TRUE,
                                            !.channels = readLE16(p, pos + 10),
                                            !.bitDepth = IF isExtensible /\ validBits > 0
                                                         THEN validBits
                                                         ELSE readLE16(p, pos + 22)])
        ELSE IF At(p, pos) = Fourcc.data
        THEN next([acc EXCEPT !.foundData = TRUE, !.dataRemaining = chunkSize,
                              !.dataStart = pos + 8])
        ELSE next(acc)

RECURSIVE AiffChunks(_, _, _)
AiffChunks(p, pos, acc) ==
    IF pos + 8 > Len(p) THEN acc
    ELSE
    LET chunkSize == readBE32(p, pos + 4)
        next(a) == IF a.foundFmt /\ a.foundData THEN [a EXCEPT !.res = "ok"]
                   ELSE AiffChunks(p, pos + 8 + chunkSize + (chunkSize % 2), a)
    IN  IF At(p, pos) = Fourcc.COMM
        THEN IF pos + 8 + chunkSize > Len(p) THEN acc
             ELSE next([acc EXCEPT !.foundFmt = TRUE,
                                   !.channels = readBE16(p, pos + 8),
                                   !.bitDepth = readBE16(p, pos + 14)])
        ELSE IF At(p, pos) = Fourcc.SSND
        THEN IF pos + 16 > Len(p) THEN acc
             ELSE next([acc EXCEPT !.foundData = TRUE,
                                   !.dataRemaining = chunkSize - 8,
                                   !.dataStart = pos + 16 + readBE32(p, pos + 8)])
        ELSE next(acc)

\* The common tail of both parsers: the format is taken, the bytes after
\* dataStart move to the data buffer, the header buffer is cleared.
PcmHeaderDone(d, r, bigEndian) ==
    IF r.res = "more" THEN d
    ELSE IF r.res = "error" THEN PcmFail(d)
    ELSE [d EXCEPT !.channels = r.channels, !.bitDepth = r.bitDepth,
                   !.m_bigEndian = bigEndian, !.m_dataRemaining = r.dataRemaining,
                   !.m_dataBuf = @ \o (IF r.dataStart < Len(d.m_headerBuf)
                                       THEN Drop(d.m_headerBuf, r.dataStart) ELSE <<>>),
                   !.m_headerBuf = <<>>, !.m_state = "DATA"]

PcmDecoder_parseWavHeader(d) ==
    LET p == d.m_headerBuf
    IN  IF Len(p) < WAV_MIN_HEADER THEN d
        ELSE IF At(p, 0) # Fourcc.RIFF \/ At(p, 8) # Fourcc.WAVE THEN PcmFail(d)
        ELSE PcmHeaderDone(d, WavChunks(p, 12, ChunkScan0), FALSE)

PcmDecoder_parseAiffHeader(d) ==
    LET p == d.m_headerBuf
    IN  IF Len(p) < AIFF_MIN_HEADER THEN d
        ELSE IF At(p, 0) # Fourcc.FORM \/ At(p, 8) \notin {Fourcc.AIFF, Fourcc.AIFC}
        THEN PcmFail(d)
        ELSE PcmHeaderDone(d, AiffChunks(p, 12, ChunkScan0), TRUE)

S8(b) == IF b >= 128 THEN b - 256 ELSE b
\* One sample from its bytesPerSample bytes b (in stream order), as the
\* switch of convertSamples computes it; the depths of the streams above
\* have one to four bytes per sample.
ConvertSample(b, bigEndian) ==
    LET m == IF bigEndian THEN b ELSE [k \in 1..Len(b) |-> b[Len(b) + 1 - k]]
    IN  CASE Len(b) = 1 -> S8(m[1]) * 16777216
          [] Len(b) = 2 -> (S8(m[1]) * 256 + m[2]) * 65536
          [] Len(b) = 3 -> S8(m[1]) * 16777216 + m[2] * 65536 + m[3] * 256
          [] Len(b) = 4 -> S8(m[1]) * 16777216 + m[2] * 65536 + m[3] * 256 + m[4]

PcmDecoder_convertSamples(d, src) ==
    LET bytesPerSample == d.bitDepth \div 8
    IN  [i \in 1..(Len(src) \div bytesPerSample) |->
            ConvertSample(SubSeq(src, (i - 1) * bytesPerSample + 1, i * bytesPerSample),
                          d.m_bigEndian)]

\* an empty read that finishes the decoder whether or not EOF was set
FinishOnEmptyReadAlways(d) == TRUE

\* readDecoded with no whole frame to convert: finished only after setEof.
FinishOnEmptyRead(d) == d.m_eof

PcmDecoder_readDecoded(d0, maxFrames) ==
    LET d1 == IF d0.m_state = "DETECT" THEN PcmDecoder_detectContainer(d0) ELSE d0
        d == IF d1.m_state = "PARSE_WAV" THEN PcmDecoder_parseWavHeader(d1)
             ELSE IF d1.m_state = "PARSE_AIFF" THEN PcmDecoder_parseAiffHeader(d1)
             ELSE d1
        bytesPerFrame == (d.bitDepth \div 8) * d.channels
        availBytes == IF d.m_dataRemaining > 0
                      THEN Min(Len(d.m_dataBuf), d.m_dataRemaining)
                      ELSE Len(d.m_dataBuf)
        framesToConvert == Min(availBytes \div bytesPerFrame, maxFrames)
        bytesToConvert == framesToConvert * bytesPerFrame
    IN  IF d0.m_error \/ d0.m_finished THEN [d |-> d0, out |-> <<>>]
        ELSE IF d.m_state # "DATA" \/ bytesPerFrame = 0 THEN [d |-> d, out |-> <<>>]
        ELSE IF framesToConvert = 0
        THEN [d |-> [d EXCEPT !.m_finished = FinishOnEmptyRead(d)], out |-> <<>>]
        ELSE [d |-> [d EXCEPT !.m_dataBuf = Drop(@, bytesToConvert),
                              !.m_dataRemaining = IF @ > 0 THEN @ - bytesToConvert ELSE @,
                              !.m_finished = d.m_dataRemaining > 0
                                             /\ d.m_dataRemaining = bytesToConvert],
              out |-> PcmDecoder_convertSamples(d, Take(d.m_dataBuf, bytesToConvert))]

\* ---- the decoder driven by a caller: feed, readDecoded, setEof, flush ----
PcmFeedLens == {1, 5, 64}
MaxReadFrames == 2

PcmDecoderFor(s) ==
    IF s.hint = NoHint THEN PcmDecoderNew
    ELSE PcmDecoder_setRawPcmFormat(PcmDecoderNew, s.hint)

PcmUnit(s) ==
    [kind |-> "pcm", s |-> s, pos |-> 0, d |-> PcmDecoderFor(s), out |-> <<>>,
     pass |-> 1, first |-> <<>>, consumed |-> 0]

PcmUnitInit == ProgramInit /\ \E s \in PcmByteStreams : unit = PcmUnit(s)

PcmUnitFeed ==
    /\ unit.kind = "pcm"
    /\ unit.pos < Len(unit.s.bytes)
    /\ \E n \in PcmFeedLens :
          LET k == Min(n, Len(unit.s.bytes) - unit.pos)
          IN  unit' = [unit EXCEPT
                  !.d = PcmDecoder_feed(@, SubSeq(unit.s.bytes, unit.pos + 1, unit.pos + k)),
                  !.pos = @ + k]
    /\ UNCHANGED <<vars, g_running, mainT, client, ctl, wire>>

PcmUnitRead ==
    /\ unit.kind = "pcm"
    /\ \E maxFrames \in 1..MaxReadFrames :
          LET r == PcmDecoder_readDecoded(unit.d, maxFrames)
          IN  unit' = [unit EXCEPT !.d = r.d, !.out = @ \o r.out,
                                   !.consumed = @ + Len(r.out) * (r.d.bitDepth \div 8)]
    /\ UNCHANGED <<vars, g_running, mainT, client, ctl, wire>>

PcmUnitSetEof ==
    /\ unit.kind = "pcm"
    /\ unit.pos = Len(unit.s.bytes)
    /\ ~unit.d.m_eof
    /\ unit' = [unit EXCEPT !.d = PcmDecoder_setEof(@)]
    /\ UNCHANGED <<vars, g_running, mainT, client, ctl, wire>>

\* Every byte fed, EOF set, and one more read would give nothing.
PcmExhausted(u) ==
    /\ u.pos = Len(u.s.bytes)
    /\ u.d.m_eof
    /\ PcmDecoder_readDecoded(u.d, 1).out = <<>>

\* flush() alone, then the same bytes from the start.
PcmUnitFlush ==
    /\ unit.kind = "pcm"
    /\ unit.pass = 1
    /\ PcmExhausted(unit)
    /\ unit' = [unit EXCEPT !.d = PcmDecoder_flush(@), !.pos = 0, !.first = unit.out,
                             !.out = <<>>, !.pass = 2, !.consumed = 0]
    /\ UNCHANGED <<vars, g_running, mainT, client, ctl, wire>>

NextPcmUnit == PcmUnitFeed \/ PcmUnitRead \/ PcmUnitSetEof \/ PcmUnitFlush
SpecPcmUnit == PcmUnitInit /\ [][NextPcmUnit]_allvars

\* feed of all bytes at once, then readDecoded until it gives nothing.
RECURSIVE PcmReadAll(_)
PcmReadAll(d) ==
    LET r == PcmDecoder_readDecoded(d, MaxReadFrames)
    IN  IF r.out = <<>> THEN <<>> ELSE r.out \o PcmReadAll(r.d)
PcmFeedAllThenRead(s) == PcmReadAll(PcmDecoder_feed(PcmDecoderFor(s), s.bytes))


\* ---------------------------------------------------------------------------
\* The DSD stream reader taken by itself, byte for byte.  A payload byte
\* carries its channel and its temporal index, so that the layout of what
\* readPlanar returns can be read off the bytes.  The 64-bit size fields of
\* the streams have a zero high word, so readLE64 and readBE64 are the low
\* word.
\* ---------------------------------------------------------------------------
Tag(c, i) == 64 * c + i + 1

readLE64(p, i) == readLE32(p, i)
readBE64(p, i) == readBE32(p, i + 4)

\* DSF: block groups, each blockSize bytes of channel 0, then of channel 1, ...
DsfPayload(channels, blockSize, groups) ==
    Flatten([g \in 1..groups |->
        Flatten([c \in 1..channels |->
            [k \in 1..blockSize |-> Tag(c - 1, (g - 1) * blockSize + k - 1)]])])
\* DFF and raw: byte-interleaved frames.
DffPayload(channels, frames) ==
    Flatten([i \in 1..frames |-> [c \in 1..channels |-> Tag(c - 1, i - 1)]])

DsfHeader(channels, blockSize, dataBytes) ==
    Fourcc.DSD \o LE(28, 8) \o LE(92 + dataBytes, 8) \o LE(0, 8)
    \o Fourcc.fmt \o LE(52, 8) \o LE(1, 4) \o LE(0, 4) \o LE(channels, 4)
    \o LE(channels, 4) \o LE(2822400, 4) \o LE(1, 4) \o LE(8 * dataBytes, 8)
    \o LE(blockSize, 4) \o LE(0, 4)
    \o Fourcc.data \o LE(12 + dataBytes, 8)

DffHeader(channels, dataBytes) ==
    LET chnl == BE(channels, 2) \o Flatten([c \in 1..channels |-> <<67, 48, 48, 48 + c>>])
        prop == Fourcc.SND
                \o Fourcc.FS \o BE(4, 8) \o BE(2822400, 4)
                \o Fourcc.CHNL \o BE(Len(chnl), 8) \o chnl
                \o Fourcc.CMPR \o BE(4, 8) \o Fourcc.DSD
    IN  Fourcc.FRM8 \o BE(4 + 16 + 12 + Len(prop) + 12 + dataBytes, 8) \o Fourcc.DSD
        \o Fourcc.FVER \o BE(4, 8) \o <<1, 5, 0, 0>>
        \o Fourcc.PROP \o BE(Len(prop), 8) \o prop
        \o Fourcc.DSD \o BE(dataBytes, 8)

DsdByteStream(id, channels, bytes, hint) ==
    [id |-> id, channels |-> channels, bytes |-> bytes, hint |-> hint]

DsdByteStreams ==
    { DsdByteStream("dsf2", 2, DsfHeader(2, 2, 8) \o DsfPayload(2, 2, 2), 0),
      DsdByteStream("dsf1", 1, DsfHeader(1, 2, 4) \o DsfPayload(1, 2, 2), 0),
      DsdByteStream("dsfTail", 2, DsfHeader(2, 4, 6) \o Take(DsfPayload(2, 4, 1), 6), 0),
      DsdByteStream("dff2", 2, DffHeader(2, 6) \o DffPayload(2, 3), 0),
      DsdByteStream("dffOdd", 2, DffHeader(2, 5) \o Take(DffPayload(2, 3), 5), 0),
      DsdByteStream("raw2", 2, DffPayload(2, 3), 2),
      DsdByteStream("bad", 2, <<1, 2, 3, 4, 5, 6>>, 0) }

DsdStreamReaderNew ==
    [m_state |-> "DETECT", m_headerBuf |-> <<>>, m_dataBuf |-> <<>>,
     channels |-> 0, blockSizePerChannel |-> 0, container |-> "DSF",
     m_formatReady |-> FALSE, m_rawDsdConfigured |-> FALSE, m_dataRemaining |-> 0,
     m_totalBytesOutput |-> 0, m_eof |-> FALSE, m_error |-> FALSE,
     m_finished |-> FALSE]

DsdStreamReader_flush(r) == DsdStreamReaderNew

DsdStreamReader_setRawDsdFormat(r, channels) ==
    [r EXCEPT !.channels = channels, !.blockSizePerChannel = 0,
              !.container = "RAW", !.m_rawDsdConfigured = TRUE]

DsdFail(r) == [r EXCEPT !.m_state = "ERROR", !.m_error = TRUE]

DsdStreamReader_detectContainer(r) ==
    IF Len(r.m_headerBuf) < 4 THEN r
    ELSE IF At(r.m_headerBuf, 0) = Fourcc.DSD THEN [r EXCEPT !.m_state = "PARSE_DSF"]
    ELSE IF At(r.m_headerBuf, 0) = Fourcc.FRM8 THEN [r EXCEPT !.m_state = "PARSE_DFF"]
    ELSE IF r.m_rawDsdConfigured
    THEN [r EXCEPT !.m_formatReady = TRUE, !.m_dataRemaining = 0,
                   !.m_dataBuf = @ \o r.m_headerBuf, !.m_headerBuf = <<>>,
                   !.m_state = "DATA"]
    ELSE DsdFail(r)

\* The common tail of both header parsers: at most dataRemaining of the bytes
\* after dataStart move to the data buffer and are counted off.
DsdHeaderDone(r, container, channels, blockSize, dataBytes, dataStart) ==
    LET excess == IF Len(r.m_headerBuf) > dataStart
                  THEN Len(r.m_headerBuf) - dataStart ELSE 0
        toMove == IF dataBytes > 0 /\ excess > dataBytes THEN dataBytes ELSE excess
    IN  [r EXCEPT !.channels = channels, !.blockSizePerChannel = blockSize,
                  !.container = container, !.m_formatReady = TRUE,
                  !.m_dataRemaining = IF dataBytes > 0 THEN dataBytes - toMove ELSE 0,
                  !.m_dataBuf = @ \o SubSeq(r.m_headerBuf, dataStart + 1, dataStart + toMove),
                  !.m_headerBuf = <<>>, !.m_state = "DATA"]


DsdStreamReader_parseDsfHeader(r) ==
    LET p == r.m_headerBuf
        channelCount == readLE32(p, 52)
        blockSize == readLE32(p, 72)
        dataChunkOffset == 28 + readLE64(p, 32)
    IN  IF Len(p) < DSF_MIN_HEADER THEN r
        ELSE IF At(p, 0) # Fourcc.DSD \/ At(p, 28) # Fourcc.fmt THEN DsdFail(r)
        ELSE IF readLE32(p, 44) # 0 THEN DsdFail(r)
        ELSE IF channelCount = 0 \/ channelCount > 8 THEN DsdFail(r)
        ELSE IF blockSize = 0 THEN DsdFail(r)
        ELSE IF Len(p) < dataChunkOffset + 12 THEN r
        ELSE IF At(p, dataChunkOffset) # Fourcc.data THEN DsdFail(r)
        ELSE DsdHeaderDone(r, "DSF", channelCount, blockSize,
                           readLE64(p, dataChunkOffset + 4) - 12, dataChunkOffset + 12)

DffScan0 == [res |-> "scan", sampleRate |-> 0, channels |-> 0, foundFS |-> FALSE,
             foundCHNL |-> FALSE, dataSize |-> 0, dataStart |-> 0]
WordAlign(pos) == pos + (pos % 2)

\* The sub-chunks of PROP/SND.
RECURSIVE DffProp(_, _, _, _)
DffProp(p, subPos, propEnd, acc) ==
    IF ~(subPos + 12 <= Len(p) /\ subPos + 12 <= propEnd) THEN acc
    ELSE
    LET subSize == readBE64(p, subPos + 4)
        next(a) == DffProp(p, WordAlign(subPos + 12 + subSize), propEnd, a)
    IN  IF At(p, subPos) = Fourcc.FS
        THEN IF subPos + 12 + 4 > Len(p) THEN [acc EXCEPT !.res = "more"]
             ELSE next([acc EXCEPT !.sampleRate = readBE32(p, subPos + 12),
                                   !.foundFS = TRUE])
        ELSE IF At(p, subPos) = Fourcc.CHNL
        THEN IF subPos + 12 + 2 > Len(p) THEN [acc EXCEPT !.res = "more"]
             ELSE next([acc EXCEPT !.channels = readBE16(p, subPos + 12),
                                   !.foundCHNL = TRUE])
        ELSE IF At(p, subPos) = Fourcc.CMPR
        THEN IF subPos + 12 + 4 > Len(p) THEN [acc EXCEPT !.res = "more"]
             ELSE IF At(p, subPos + 12) # Fourcc.DSD THEN [acc EXCEPT !.res = "error"]
             ELSE next(acc)
        ELSE next(acc)

\* The chunks after FRM8 ... DSD: res ends as "data" (the DSD chunk was
\* found), "more" (return false, state kept) or "error".
RECURSIVE DffChunks(_, _, _)
DffChunks(p, pos, acc) ==
    IF pos + 12 > Len(p) THEN [acc EXCEPT !.res = "more"]
    ELSE
    LET chunkSize == readBE64(p, pos + 4)
    IN  IF At(p, pos) = Fourcc.FVER THEN DffChunks(p, pos + 12 + chunkSize, acc)
        ELSE IF At(p, pos) = Fourcc.PROP
        THEN IF pos + 16 > Len(p) THEN [acc EXCEPT !.res = "more"]
             ELSE IF At(p, pos + 12) # Fourcc.SND
             THEN DffChunks(p, pos + 12 + chunkSize, acc)
             ELSE LET a == DffProp(p, pos + 16, pos + 12 + chunkSize, acc)
                  IN  IF a.res # "scan" THEN a
                      ELSE DffChunks(p, WordAlign(pos + 12 + chunkSize), a)
        ELSE IF At(p, pos) = Fourcc.DSD
        THEN [acc EXCEPT !.res = "data", !.dataSize = chunkSize, !.dataStart = pos + 12]
        ELSE DffChunks(p, WordAlign(pos + 12 + chunkSize), acc)

DsdStreamReader_parseDffHeader(r) ==
    LET p == r.m_headerBuf
        a == DffChunks(p, 16, DffScan0)
    IN  IF Len(p) < 16 THEN r
        ELSE IF At(p, 0) # Fourcc.FRM8 \/ At(p, 12) # Fourcc.DSD THEN DsdFail(r)
        ELSE IF a.res = "more" THEN r
        ELSE IF a.res = "error" THEN DsdFail(r)
        ELSE IF ~a.foundFS \/ a.sampleRate = 0 THEN DsdFail(r)
        ELSE IF ~a.foundCHNL \/ a.channels = 0 THEN DsdFail(r)
        ELSE DsdHeaderDone(r, "DFF", a.channels, 0, a.dataSize, a.dataStart)

\* a feed that takes bytes in the DONE and ERROR states as in DATA
DsdStreamReader_feedAfterDone(r, data) ==
    IF r.m_state \in {"DETECT", "PARSE_DSF", "PARSE_DFF"}
    THEN LET r1 == [r EXCEPT !.m_headerBuf = @ \o data]
             r2 == IF r1.m_state = "DETECT" THEN DsdStreamReader_detectContainer(r1) ELSE r1
         IN  IF r2.m_state = "PARSE_DSF" THEN DsdStreamReader_parseDsfHeader(r2)
             ELSE IF r2.m_state = "PARSE_DFF" THEN DsdStreamReader_parseDffHeader(r2)
             ELSE r2
    ELSE LET toAdd == IF r.m_dataRemaining > 0 /\ Len(data) > r.m_dataRemaining
                      THEN r.m_dataRemaining ELSE Len(data)
         IN  [r EXCEPT !.m_dataBuf = @ \o Take(data, toAdd),
                       !.m_dataRemaining = IF @ > 0 THEN @ - toAdd ELSE @]

DsdStreamReader_feed(r, data) ==
    IF r.m_state \in {"DONE", "ERROR"} THEN r
    ELSE IF r.m_state \in {"DETECT", "PARSE_DSF", "PARSE_DFF"}
    THEN LET r1 == [r EXCEPT !.m_headerBuf = @ \o data]
             r2 == IF r1.m_state = "DETECT" THEN DsdStreamReader_detectContainer(r1) ELSE r1
         IN  IF r2.m_state = "PARSE_DSF" THEN DsdStreamReader_parseDsfHeader(r2)
             ELSE IF r2.m_state = "PARSE_DFF" THEN DsdStreamReader_parseDffHeader(r2)
             ELSE r2
    ELSE IF r.m_state = "DATA"
    THEN LET toAdd == IF r.m_dataRemaining > 0 /\ Len(data) > r.m_dataRemaining
                      THEN r.m_dataRemaining ELSE Len(data)
         IN  [r EXCEPT !.m_dataBuf = @ \o Take(data, toAdd),
                       !.m_dataRemaining = IF @ > 0 THEN @ - toAdd ELSE @]
    ELSE r

DsdStreamReader_setEof(r) == [r EXCEPT !.m_eof = TRUE]

\* Each of the three process functions gives the bytes written to out and
\* the reader with those bytes taken off the data buffer.
DsdTaken(r, n, out) ==
    [r |-> [r EXCEPT !.m_dataBuf = Drop(@, n), !.m_totalBytesOutput = @ + n],
     out |-> out]

processDsfBlocks(r, maxBytes) ==
    LET blockGroup == r.blockSizePerChannel * r.channels
        avail == Len(r.m_dataBuf)
        groups == Min(maxBytes \div blockGroup, avail \div blockGroup)
        usable0 == (avail \div r.channels) * r.channels
        usable == IF usable0 > maxBytes THEN (maxBytes \div r.channels) * r.channels
                  ELSE usable0
    IN  IF blockGroup = 0 THEN [r |-> r, out |-> <<>>]
        ELSE IF groups = 0
        THEN IF r.m_eof /\ avail > 0 /\ r.m_dataRemaining = 0 /\ usable > 0
             THEN DsdTaken(r, usable, Take(r.m_dataBuf, usable))
             ELSE [r |-> r, out |-> <<>>]
        ELSE DsdTaken(r, groups * blockGroup, Take(r.m_dataBuf, groups * blockGroup))

deinterleaveToPlaynar(src, channels) ==
    IF channels < 2 THEN src
    ELSE LET bytesPerChannel == Len(src) \div channels
         IN  [k \in 1..(bytesPerChannel * channels) |->
                 src[((k - 1) % bytesPerChannel) * channels
                     + ((k - 1) \div bytesPerChannel) + 1]]

processDffData(r, maxBytes) ==
    LET usable == IF r.channels = 0 THEN 0
                  ELSE (Min(Len(r.m_dataBuf), maxBytes) \div r.channels) * r.channels
    IN  IF usable = 0 THEN [r |-> r, out |-> <<>>]
        ELSE DsdTaken(r, usable, deinterleaveToPlaynar(Take(r.m_dataBuf, usable), r.channels))

DsdStreamReader_readPlanar(r, maxBytes) ==
    LET res == IF r.container = "DSF" THEN processDsfBlocks(r, maxBytes)
               ELSE processDffData(r, maxBytes)
    IN  IF r.m_state # "DATA" \/ ~r.m_formatReady THEN [r |-> r, out |-> <<>>]
        ELSE IF res.out = <<>> /\ res.r.m_dataBuf = <<>> /\ r.m_eof
        THEN [r |-> [res.r EXCEPT !.m_finished = TRUE, !.m_state = "DONE"], out |-> <<>>]
        ELSE res

\* ---- the reader driven by a caller ----
DsdFeedLens == {1, 7, 128}
DsdReadSizes == {2, 8}

DsdUnit(s) ==
    [kind |-> "dsd", s |-> s, pos |-> 0,
     r |-> IF s.hint = 0 THEN DsdStreamReaderNew
           ELSE DsdStreamReader_setRawDsdFormat(DsdStreamReaderNew, s.hint),
     op |-> "new", chunk |-> <<>>, before |-> 0, pass |-> 1]

DsdUnitInit == ProgramInit /\ \E s \in DsdByteStreams : unit = DsdUnit(s)

\* feed may be called in any state, also after the reader is done.
DsdUnitFeed ==
    /\ unit.kind = "dsd"
    /\ unit.pos < Len(unit.s.bytes)
    /\ \E n \in DsdFeedLens :
          LET k == Min(n, Len(unit.s.bytes) - unit.pos)
          IN  unit' = [unit EXCEPT
                  !.r = DsdStreamReader_feed(@, SubSeq(unit.s.bytes, unit.pos + 1, unit.pos + k)),
                  !.pos = @ + k, !.op = "feed"]
    /\ UNCHANGED <<vars, g_running, mainT, client, ctl, wire>>

DsdUnitRead ==
    /\ unit.kind = "dsd"
    /\ \E maxBytes \in DsdReadSizes :
          LET res == DsdStreamReader_readPlanar(unit.r, maxBytes)
          IN  unit' = [unit EXCEPT !.r = res.r, !.chunk = res.out, !.op = "read",
                                   !.before = unit.r.m_totalBytesOutput]
    /\ UNCHANGED <<vars, g_running, mainT, client, ctl, wire>>

DsdUnitSetEof ==
    /\ unit.kind = "dsd"
    /\ ~unit.r.m_eof
    /\ unit' = [unit EXCEPT !.r = DsdStreamReader_setEof(@), !.op = "eof"]
    /\ UNCHANGED <<vars, g_running, mainT, client, ctl, wire>>

DsdUnitFlush ==
    /\ unit.kind = "dsd"
    /\ unit.pass = 1
    /\ unit.r.m_state \in {"DONE", "ERROR"}
    /\ unit' = [unit EXCEPT !.r = DsdStreamReader_flush(@), !.pos = 0, !.op = "flush",
                            !.chunk = <<>>, !.before = 0, !.pass = 2]
    /\ UNCHANGED <<vars, g_running, mainT, client, ctl, wire>>

NextDsdUnit == DsdUnitFeed \/ DsdUnitRead \/ DsdUnitSetEof \/ DsdUnitFlush
SpecDsdUnit == DsdUnitInit /\ [][NextDsdUnit]_allvars

\* Files that go on after their data chunk: a DSF file with a metadata chunk
\* behind the sample data, a DFF file with a further chunk.  hint holds the
\* payload bytes the data chunk declares.
DsdTailStreams ==
    { DsdByteStream("dsfMeta", 2,
                    DsfHeader(2, 2, 8) \o DsfPayload(2, 2, 2)
                    \o <<73, 68, 51, 3, 0, 0, 0, 0>>, 8),
      DsdByteStream("dffTrail", 2,
                    DffHeader(2, 6) \o DffPayload(2, 3)
                    \o <<67, 79, 77, 84>>, 6) }

DsdTailInit ==
    ProgramInit /\ \E s \in DsdTailStreams :
                      unit = [DsdUnit(s) EXCEPT !.r = DsdStreamReaderNew]

SpecDsdTail == DsdTailInit /\ [][NextDsdUnit]_allvars


\* ---------------------------------------------------------------------------
\* strm 'p' and strm 'u' over the Sink, with the passage of time: the receive
\* loop dispatches each frame, handleStrm calls the stream callback of main,
\* and a millisecond may pass at any moment while the Sink is held.
\* interval and since record what the last pause command carried and the
\* milliseconds gone since it was handled.
\* ---------------------------------------------------------------------------
MaxPauseCmds == 3
MaxPauseMs == 3
PauseIntervals == {<<0, 0, 0, 0>>, <<0, 0, 0, 2>>}
PauseFrames ==
    {ServerFrame(Op.strm, StrmHead(STRM_PAUSE, i, <<0, 0>>, <<0, 0, 0, 0>>)) :
        i \in PauseIntervals}
    \cup {ServerFrame(Op.strm, StrmHead(STRM_UNPAUSE, <<0, 0, 0, 0>>, <<0, 0>>,
                                       <<0, 0, 0, 0>>))}

PauseInit ==
    ProgramInit /\ unit = [kind |-> "pause", frame |-> <<>>, n |-> 0, paused |-> FALSE,
                           interval |-> 0, since |-> 0, stats |-> <<>>]

\* The stream callback, cases STRM_PAUSE and STRM_UNPAUSE.
StreamCallbackPause(u, cmd) ==
    IF cmd.command = STRM_PAUSE
    THEN [u EXCEPT !.paused = TRUE, !.stats = @ \o <<"STMp">>,
                   !.interval = getReplayGain(cmd).lo, !.since = 0]
    ELSE IF cmd.command = STRM_UNPAUSE
    THEN [u EXCEPT !.paused = FALSE, !.stats = @ \o <<"STMr">>,
                   !.interval = 0, !.since = 0]
    ELSE u

PauseServerSend ==
    /\ unit.kind = "pause"
    /\ unit.n < MaxPauseCmds
    /\ \E f \in PauseFrames : unit' = [unit EXCEPT !.frame = @ \o f, !.n = @ + 1]
    /\ UNCHANGED <<vars, g_running, mainT, client, ctl, wire>>

PauseRxFrame ==
    /\ unit.kind = "pause"
    /\ CanRead(unit.frame)
    /\ LET in == Inbound(unit.frame)
           h == ProcessServerMessage(in.opcode, in.payload, DefaultConfig, U32(0))
           u == [unit EXCEPT !.frame = in.rest]
       IN  unit' = IF h.stream = <<>> THEN u ELSE StreamCallbackPause(u, h.stream[1].cmd)
    /\ UNCHANGED <<vars, g_running, mainT, client, ctl, wire>>

PauseTick ==
    /\ unit.kind = "pause"
    /\ unit.paused
    /\ unit.since < MaxPauseMs
    /\ unit' = [unit EXCEPT !.since = @ + 1]
    /\ UNCHANGED <<vars, g_running, mainT, client, ctl, wire>>

NextPause == PauseServerSend \/ PauseRxFrame \/ PauseTick
SpecPause == PauseInit /\ [][NextPause]_allvars


\* ---------------------------------------------------------------------------
\* sendMessage called from the audio thread, the receive thread and the main
\* thread at once.  A call takes m_sendMutex, builds its frame, and sendAll
\* hands it to send() in as many pieces as the socket takes; the wire is
\* kept as its runs: the bytes written one after the other by one call
\* (thread and call number) of sendMessage.
\* ---------------------------------------------------------------------------
Senders == {"audio", "rx", "main"}
MaxSends == 2
SendPieces == {32, 64}

\* The frames each thread sends: STAT from the audio thread; STAT, RESP and
\* SETD from the receive thread; BYE! from the main thread.
SenderFrames(t) ==
    CASE t = "audio" -> {SendStat(<<83, 84, 77, 115>>, U32(0), U32(0))}
      [] t = "rx" -> {SendMessage(<<82, 69, 83, 80>>, <<72, 84, 84, 80>>),
                      SendMessage(Op.SETD, <<0, 65>>)}
      [] t = "main" -> {SendMessage(<<66, 89, 69, 33>>, <<0>>)}

SendInit ==
    ProgramInit /\ unit = [kind |-> "send", m_sendMutex |-> "free", sockOk |-> TRUE,
                           th |-> [t \in Senders |-> [pc |-> "idle", frame |-> <<>>, k |-> 0]],
                           wire |-> <<>>]

\* a lock that is taken whether or not another thread holds it
MutexFreeAlways(m) == TRUE

\* std::lock_guard on m_sendMutex blocks until no thread holds it.
MutexFree(m) == m = "free"

\* sendMessage up to the call of sendAll: lock, frame built.
SendBegin(t) ==
    /\ unit.kind = "send"
    /\ unit.th[t].pc = "idle"
    /\ unit.th[t].k < MaxSends
    /\ MutexFree(unit.m_sendMutex)
    /\ \E f \in SenderFrames(t) :
         unit' = [unit EXCEPT !.m_sendMutex = t,
                              !.th[t] = [pc |-> "sendAll", frame |-> f, k |-> @.k + 1]]
    /\ UNCHANGED <<vars, g_running, mainT, client, ctl, wire>>

\* The wire after one more piece written by the call by.
Written(w, by, bytes) ==
    IF w # <<>> /\ w[Len(w)].by = by
    THEN [w EXCEPT ![Len(w)].bytes = @ \o bytes]
    ELSE Append(w, [by |-> by, bytes |-> bytes])

\* One send() of sendAll that takes n > 0 bytes.
SendSome(t) ==
    /\ unit.kind = "send"
    /\ unit.th[t].pc = "sendAll"
    /\ unit.th[t].frame # <<>>
    /\ unit.sockOk
    /\ \E piece \in SendPieces :
         LET n == Min(piece, Len(unit.th[t].frame))
         IN  unit' = [unit EXCEPT
                 !.wire = Written(@, <<t, unit.th[t].k>>, Take(unit.th[t].frame, n)),
                 !.th[t].frame = Drop(@, n)]
    /\ UNCHANGED <<vars, g_running, mainT, client, ctl, wire>>

\* One send() that fails: sendAll returns false, the socket is dead from
\* then on.
SendFail(t) ==
    /\ unit.kind = "send"
    /\ unit.th[t].pc = "sendAll"
    /\ unit.th[t].frame # <<>>
    /\ unit' = [unit EXCEPT !.sockOk = FALSE, !.th[t].frame = <<>>]
    /\ UNCHANGED <<vars, g_running, mainT, client, ctl, wire>>

\* sendAll has returned: the lock_guard releases the mutex.
SendEnd(t) ==
    /\ unit.kind = "send"
    /\ unit.th[t].pc = "sendAll"
    /\ unit.th[t].frame = <<>>
    /\ unit' = [unit EXCEPT !.th[t].pc = "idle",
                            !.m_sendMutex = IF @ = t THEN "free" ELSE @]
    /\ UNCHANGED <<vars, g_running, mainT, client, ctl, wire>>

NextSend ==
    \E t \in Senders : SendBegin(t) \/ SendSome(t) \/ SendFail(t) \/ SendEnd(t)
SpecSend == SendInit /\ [][NextSend]_allvars


(***************************************************************************)
(* The PCM audio loop by sample counts: the decode cache, the prebuffer,   *)
(* the pushes into the ring of the Sink and the elapsed time, for the      *)
(* formats a decoder can report, a format change in mid-stream included.   *)
(* The running flag stays set and the decoder reports no error.            *)
(*   src       : what the HTTP reads still to come decode to, one run      *)
(*               [n, rate, ch] of n frames per read                        *)
(*   dec       : the decoder: format, frames fed and not yet read, flags   *)
(*   ring      : samples held by the ring of the Sink, of ringCap          *)
(*   produced, appended, sent, accepted, lastDrain, prevElapsed : history  *)
(***************************************************************************)
Run(n, rate, ch) == [n |-> n, rate |-> rate, ch |-> ch]

\* k runs alike
Repeat(k, run) == [i \in 1..k |-> run]

\* Frames of one HTTP read of 65536 bytes: 16-bit stereo and mono PCM,
\* 24-bit six-channel PCM, four seconds of a compressed stream, and streams
\* whose sample rate or channel count changes.
FlowTracks ==
    { Repeat(3, Run(16384, 44100, 2)),
      Repeat(2, Run(32768, 44100, 1)),
      Repeat(26, Run(16384, 768000, 2)),
      Repeat(18, Run(8192, 352800, 6)),
      Repeat(26, Run(16384, 1536000, 2)),
      Repeat(2, Run(176400, 44100, 2)),
      <<Run(32768, 22050, 2), Run(32768, 22050, 2), Run(32768, 44100, 2)>>,
      <<Run(32768, 44100, 1), Run(32768, 44100, 2)>> }

\* Capacities of the ring in samples, powers of two.
RingCaps == {131072, 4194304}

RECURSIVE RunFrames(_)
RunFrames(in) == IF in = <<>> THEN 0 ELSE Head(in).n + RunFrames(Tail(in))

RECURSIVE RunSamples(_)
RunSamples(in) ==
    IF in = <<>> THEN 0 ELSE Head(in).n * Head(in).ch + RunSamples(Tail(in))

FlowDecoderNew ==
    [ready |-> FALSE, rate |-> 0, ch |-> 0, in |-> <<>>, eof |-> FALSE,
     fin |-> FALSE]

Decoder_feed(d, run) == [d EXCEPT !.in = Append(@, run)]

Decoder_setEof(d) == [d EXCEPT !.eof = TRUE]

\* readDecoded until it returns 0: every frame fed is decoded, the format is
\* that of the last frame decoded, and the decoder finishes at EOF.
Decoder_readAll(d) ==
    IF d.fin THEN d
    ELSE LET last == d.in[Len(d.in)]
         IN  [d EXCEPT !.in = <<>>,
                       !.ready = @ \/ d.in # <<>>,
                       !.rate = IF d.in = <<>> THEN @ ELSE last.rate,
                       !.ch = IF d.in = <<>> THEN @ ELSE last.ch,
                       !.fin = d.eof]

\* send_audio on the ring: what fits is written, the rest is dropped.
RingWrite(used, cap, n) == Min(n, cap - used)

\* getBufferLevel() > 0.95f
AboveHighWater(used, cap) == used * 100 > 95 * cap

FlowUnit(track, cap) ==
    [kind |-> "flow", src |-> track, ringCap |-> cap, ring |-> 0,
     dec |-> FlowDecoderNew, cacheSize |-> 0, cachePos |-> 0, detCh |-> 2,
     formatLogged |-> FALSE, opened |-> FALSE, httpEof |-> FALSE,
     pushed |-> 0, elapsedMs |-> 0, prevElapsed |-> 0, produced |-> 0,
     appended |-> 0, sent |-> 0, accepted |-> 0, lastDrain |-> 0,
     pc |-> "loop"]

FlowInit ==
    ProgramInit /\ unit \in {FlowUnit(t, c) : t \in FlowTracks, c \in RingCaps}

\* a cache that is never found full
CacheHasSpaceAlways(u) == TRUE

\* decodeCache.size() - decodeCachePos < DECODE_CACHE_MAX_SAMPLES
CacheHasSpace(u) == u.cacheSize - u.cachePos < DECODE_CACHE_MAX_SAMPLES

\* while (true) { frames = readDecoded(...); if (frames == 0) break;
\*                insert(decodeBuf, decodeBuf + frames * detectedChannels) }
FlowDrain(u) ==
    LET n == RunFrames(u.dec.in)
    IN  [u EXCEPT !.dec = Decoder_readAll(@),
                  !.cacheSize = @ + n * u.detCh,
                  !.appended = @ + n * u.detCh,
                  !.produced = @ + RunSamples(u.dec.in),
                  !.lastDrain = n * u.detCh]

\* sendAudio of frames frames from the cache, cache position and
\* pushedFrames advanced by the whole request
FlowSend(u, frames) ==
    LET n == frames * u.detCh
        w == RingWrite(u.ring, u.ringCap, n)
    IN  [u EXCEPT !.ring = @ + w, !.sent = @ + n, !.accepted = @ + w,
                  !.cachePos = @ + n, !.pushed = @ + frames]

\* updateElapsed(totalMs / 1000, totalMs)
FlowElapsed(u) ==
    IF u.dec.ready /\ u.dec.rate > 0
    THEN [u EXCEPT !.prevElapsed = u.elapsedMs,
                   !.elapsedMs = (u.pushed * 1000) \div u.dec.rate]
    ELSE u

\* Phase 6: the consumed samples are erased from the cache
FlowCompact(u) ==
    IF u.cachePos > COMPACT_SAMPLES
    THEN [u EXCEPT !.cacheSize = @ - u.cachePos, !.cachePos = 0]
    ELSE u

\* Phases 1a and 1b: HTTP read and feed, then the decoder drained
FlowIngest(u) ==
    LET doRead == CacheHasSpace(u) /\ ~u.httpEof
        u1 == IF ~doRead THEN u
              ELSE IF u.src # <<>>
              THEN [u EXCEPT !.dec = Decoder_feed(@, Head(u.src)),
                             !.src = Tail(@)]
              ELSE [u EXCEPT !.httpEof = TRUE, !.dec = Decoder_setEof(@)]
    IN  IF CacheHasSpace(u1) THEN FlowDrain(u1) ELSE u1

\* Phase 2: the format is recorded once
FlowDetect(u) ==
    IF ~u.formatLogged /\ u.dec.ready
    THEN [u EXCEPT !.formatLogged = TRUE, !.detCh = u.dec.ch]
    ELSE u

\* fmt.sampleRate * PREBUFFER_MS / 1000
TargetFrames(u) == (u.dec.rate * PREBUFFER_MS) \div 1000

\* One pass of the main loop: its condition, then phases 1a to 7.
FlowPass ==
    /\ unit.kind = "flow" /\ unit.pc = "loop"
    /\ \E ok \in BOOLEAN :
       LET u == unit
           u2 == FlowDetect(FlowIngest(u))
       IN  IF ~(~u.httpEof \/ CacheFrames(u) > 0)
           THEN unit' = [u EXCEPT !.pc = "final"]
           ELSE IF u2.formatLogged /\ ~u2.opened
           THEN \* Phase 3, which ends in "continue"
                IF (CacheFrames(u2) >= TargetFrames(u2) \/ u2.httpEof)
                   /\ CacheFrames(u2) > 0
                THEN IF ok
                     THEN unit' = [FlowSend([u2 EXCEPT !.ring = 0],
                                            CacheFrames(u2))
                                     EXCEPT !.opened = TRUE]
                     ELSE unit' = [u2 EXCEPT !.pc = "done"]
                ELSE ok /\ unit' = u2
           ELSE /\ ok
                /\ LET u3 == IF u2.opened /\ CacheFrames(u2) > 0
                                /\ ~AboveHighWater(u2.ring, u2.ringCap)
                             THEN FlowSend(u2, Min(CacheFrames(u2),
                                                   MAX_DECODE_FRAMES))
                             ELSE u2
                       u4 == IF u3.opened THEN FlowElapsed(u3) ELSE u3
                   IN  unit' = FlowCompact(u4)
    /\ UNCHANGED <<vars, g_running, mainT, client, ctl, wire>>

\* After the loop: setEof, and what the decoder still holds goes to the cache.
FlowFinalDrain ==
    /\ unit.kind = "flow" /\ unit.pc = "final"
    /\ LET u1 == [unit EXCEPT !.dec = Decoder_setEof(@)]
       IN  unit' = [(IF ~u1.dec.fin /\ u1.dec.in # <<>> THEN FlowDrain(u1)
                     ELSE u1) EXCEPT !.pc = "push"]
    /\ UNCHANGED <<vars, g_running, mainT, client, ctl, wire>>

\* The loop that pushes the remaining cache, one chunk once the ring is at
\* or below the high-water mark.
FlowPush ==
    /\ unit.kind = "flow" /\ unit.pc = "push"
    /\ IF unit.opened /\ CacheFrames(unit) > 0
       THEN /\ ~AboveHighWater(unit.ring, unit.ringCap)
            /\ unit' = FlowElapsed(FlowSend(unit, Min(CacheFrames(unit),
                                                      MAX_DECODE_FRAMES)))
       ELSE unit' = [unit EXCEPT !.pc = "done"]
    /\ UNCHANGED <<vars, g_running, mainT, client, ctl, wire>>

\* The worker of the Sink empties the ring.
FlowSinkWorker ==
    /\ unit.kind = "flow" /\ unit.opened /\ unit.ring > 0
    /\ unit' = [unit EXCEPT !.ring = 0]
    /\ UNCHANGED <<vars, g_running, mainT, client, ctl, wire>>

NextFlow == FlowPass \/ FlowFinalDrain \/ FlowPush \/ FlowSinkWorker
SpecFlow == FlowInit /\ [][NextFlow]_allvars

(***************************************************************************)
(* The receive loop of the Slimproto client over the bytes of the control  *)
(* connection, with frames whose length field is under 4 among those the   *)
(* server sends.  Such a frame is its 2-byte length and as many bytes as   *)
(* the length says.                                                        *)
(*   bytes      : sent by the server and not yet read                      *)
(*   sentFrames : the frames the server has sent                           *)
(*   dispatched : opcode and payload of each processServerMessage call     *)
(***************************************************************************)
MaxFramingFrames == 3

FramingFrames ==
    { <<0, 1, 9>>, <<0, 3, 0, 4, 115>>,
      ServerFrame(Op.vers, <<56>>), ServerFrame(Op.aude, <<1, 1>>) }

FramingInit ==
    ProgramInit /\ unit = [kind |-> "rxloop", bytes |-> <<>>, sentFrames |-> <<>>,
                           dispatched |-> <<>>, out |-> <<>>, log |-> "none"]

FramingServerSend ==
    /\ unit.kind = "rxloop"
    /\ Len(unit.sentFrames) < MaxFramingFrames
    /\ \E f \in FramingFrames :
         unit' = [unit EXCEPT !.bytes = @ \o f, !.sentFrames = Append(@, f)]
    /\ UNCHANGED <<vars, g_running, mainT, client, ctl, wire>>

\* One pass of the loop of SlimprotoClient::run.
FramingPass ==
    /\ unit.kind = "rxloop"
    /\ CanRead(unit.bytes)
    /\ LET in == Inbound(unit.bytes)
           h == ProcessServerMessage(in.opcode, in.payload, DefaultConfig,
                                     U32(0))
       IN  IF in.frameLen < 4
           THEN unit' = [unit EXCEPT !.bytes = in.rest,
                                     !.log = "Invalid frame length"]
           ELSE unit' = [unit EXCEPT
                           !.bytes = in.rest,
                           !.dispatched = Append(@, [opcode |-> in.opcode,
                                                     payload |-> in.payload]),
                           !.out = @ \o h.sent,
                           !.log = h.log]
    /\ UNCHANGED <<vars, g_running, mainT, client, ctl, wire>>

NextFraming == FramingServerSend \/ FramingPass
SpecFraming == FramingInit /\ [][NextFraming]_allvars

(***************************************************************************)
(* The FLAC decoder taken by itself.  The stream is a sequence of items,   *)
(* metadata blocks and then frames; a byte carries the item it belongs to  *)
(* and its index in the item.  The library is what the decoder sees of it: *)
(* it takes bytes through readCallback, more than the item at hand needs   *)
(* when more are buffered, keeps what it has not parsed, and aborts when   *)
(* the callback has nothing to give before EOF.  Every frame decodes to    *)
(* one audio frame of one channel.                                         *)
(***************************************************************************)
FlacItems ==
    << [kind |-> "meta", size |-> 2, last |-> FALSE],
       [kind |-> "meta", size |-> 2, last |-> TRUE],
       [kind |-> "frame", size |-> 2, last |-> FALSE],
       [kind |-> "frame", size |-> 3, last |-> FALSE],
       [kind |-> "frame", size |-> 2, last |-> FALSE] >>

FlacBytes ==
    Flatten([i \in 1..Len(FlacItems) |->
                [k \in 1..FlacItems[i].size |-> <<i, k>>]])

\* bytes the library asks readCallback for at a time
LibReadBytes == 4

FlacFeedLens == {1, 3}
FlacReadFrames == {1, 2}

LibNew == [state |-> "meta", buf |-> <<>>]

FlacDecoderNew ==
    [m_inputBuffer |-> <<>>, m_inputPos |-> 0, m_outputBuffer |-> <<>>,
     m_tellOffset |-> 0, m_confirmedAbsolutePos |-> 0,
     m_initialized |-> FALSE, m_metadataDone |-> FALSE,
     m_formatReady |-> FALSE, m_eof |-> FALSE, m_error |-> FALSE,
     m_finished |-> FALSE,
     lib |-> [state |-> "none", buf |-> <<>>]]

FlacDecoder_feed(d, data) == [d EXCEPT !.m_inputBuffer = @ \o data]

FlacDecoder_setEof(d) == [d EXCEPT !.m_eof = TRUE]

\* readCallback: status and the decoder after it; the bytes go to the library
readCallback(d) ==
    LET available == Len(d.m_inputBuffer) - d.m_inputPos
        toRead == Min(available, LibReadBytes)
    IN  IF available = 0
        THEN [status |-> IF d.m_eof THEN "END_OF_STREAM" ELSE "ABORT", d |-> d]
        ELSE [status |-> "CONTINUE",
              d |-> [d EXCEPT
                       !.lib.buf = @ \o SubSeq(d.m_inputBuffer, d.m_inputPos + 1,
                                               d.m_inputPos + toRead),
                       !.m_inputPos = @ + toRead]]

\* tellCallback less what the library holds unparsed: get_decode_position
LibDecodePosition(d) == d.m_tellOffset + d.m_inputPos - Len(d.lib.buf)

\* The library gets hold of need bytes, reading while it has fewer.
RECURSIVE LibFill(_, _)
LibFillNext(r, need) ==
    IF r.status = "CONTINUE" THEN LibFill(r.d, need) ELSE r

LibFill(d, need) ==
    IF Len(d.lib.buf) >= need THEN [status |-> "CONTINUE", d |-> d]
    ELSE LibFillNext(readCallback(d), need)

\* The library parses the item at the head of its bytes: "ok" with the item,
\* "ABORT", "END_OF_STREAM", or "error" when the bytes are not an item.
\* f2 is the outcome of getting hold of the whole of item i.
LibParseWhole(f2, i) ==
    IF f2.status # "CONTINUE" THEN [res |-> f2.status, d |-> f2.d, item |-> 0]
    ELSE IF ~(\A k \in 1..FlacItems[i].size : f2.d.lib.buf[k] = <<i, k>>)
    THEN [res |-> "error", d |-> f2.d, item |-> 0]
    ELSE [res |-> "ok", item |-> i,
          d |-> [f2.d EXCEPT !.lib.buf = Drop(@, FlacItems[i].size)]]

\* f1 is the outcome of getting hold of the first byte, which names the item.
LibParseHead(f1) ==
    IF f1.status # "CONTINUE" THEN [res |-> f1.status, d |-> f1.d, item |-> 0]
    ELSE LibParseWhole(LibFill(f1.d, FlacItems[f1.d.lib.buf[1][1]].size),
                       f1.d.lib.buf[1][1])

LibParseItem(d) == LibParseHead(LibFill(d, 1))

\* process_until_end_of_metadata; metadataCallback sets the format
RECURSIVE LibProcessMetadata(_)
metadataCallback(r) ==
    IF r.res # "ok" THEN r
    ELSE IF FlacItems[r.item].kind # "meta" THEN [r EXCEPT !.res = "error"]
    ELSE IF FlacItems[r.item].last
    THEN [r EXCEPT !.d.m_formatReady = TRUE, !.d.lib.state = "sync"]
    ELSE LibProcessMetadata([r.d EXCEPT !.m_formatReady = TRUE])

LibProcessMetadata(d) == metadataCallback(LibParseItem(d))

\* process_single in the audio phase; writeCallback appends the frame
writeCallback(r) ==
    IF r.res # "ok" THEN r
    ELSE IF FlacItems[r.item].kind # "frame" THEN [r EXCEPT !.res = "error"]
    ELSE [r EXCEPT !.d.m_outputBuffer = Append(@, r.item)]

LibProcessSingle(d) == writeCallback(LibParseItem(d))

\* a read position left where the library stopped reading
KeepReadPosition(d, pos) == d

\* m_inputPos = savedPos, and m_inputPos = confirmedBufPos
Rollback(d, pos) == [d EXCEPT !.m_inputPos = pos]

\* buffer position up to which the input is erased: all that was read
CompactToReadPosition(d) == d.m_inputPos

\* confirmedBufPos = m_confirmedAbsolutePos - m_tellOffset
ConfirmedBufPos(d) == d.m_confirmedAbsolutePos - d.m_tellOffset

\* erase of the first n bytes of the input buffer
FlacErase(d, n) ==
    IF n > 0
    THEN [d EXCEPT !.m_inputBuffer = Drop(@, n), !.m_inputPos = @ - n,
                   !.m_tellOffset = @ + n]
    ELSE d

\* Phase 1 once process_until_end_of_metadata has returned r.
\* ev is what happened: "", "metaAbort", "frameAbort".
FlacAfterMetadata(r, savedPos) ==
    LET absPos == LibDecodePosition(r.d)
        audioStart == absPos - r.d.m_tellOffset
        d1 == [r.d EXCEPT !.m_metadataDone = TRUE]
        d2 == IF audioStart > 0 /\ audioStart <= Len(r.d.m_inputBuffer)
              THEN FlacErase(d1, audioStart) ELSE d1
    IN  IF r.res = "ABORT"
        THEN [d |-> [Rollback(r.d, savedPos) EXCEPT
                        !.lib = [state |-> "none", buf |-> <<>>],
                        !.m_initialized = FALSE],
              ev |-> "metaAbort", stop |-> TRUE]
        ELSE IF r.res = "END_OF_STREAM"
        THEN [d |-> [r.d EXCEPT !.m_finished = TRUE], ev |-> "", stop |-> TRUE]
        ELSE IF r.res = "error"
        THEN [d |-> [r.d EXCEPT !.m_error = TRUE], ev |-> "", stop |-> TRUE]
        ELSE [d |-> [d2 EXCEPT !.m_confirmedAbsolutePos = d2.m_tellOffset],
              ev |-> "", stop |-> FALSE]

\* Phase 1
FlacMetadataPhase(d) == FlacAfterMetadata(LibProcessMetadata(d), d.m_inputPos)

\* Phase 2: the loop over process_single; r is what process_single returned
RECURSIVE FlacAudioLoop(_, _, _)
FlacAbort(d1) ==
    IF ~d1.m_eof /\ ~d1.m_error
    THEN [d |-> [d1 EXCEPT !.lib.buf = <<>>], ev |-> "frameAbort"]
    ELSE [d |-> [d1 EXCEPT !.m_finished = TRUE], ev |-> "frameAbort"]

FlacAfterSingle(r, maxFrames, ev) ==
    IF r.res = "END_OF_STREAM"
    THEN [d |-> [r.d EXCEPT !.m_finished = TRUE], ev |-> ev]
    ELSE IF r.res = "ABORT"
    THEN FlacAbort(Rollback(r.d, ConfirmedBufPos(r.d)))
    ELSE IF r.res = "error"
    THEN [d |-> [r.d EXCEPT !.m_error = TRUE], ev |-> ev]
    ELSE FlacAudioLoop(
             [r.d EXCEPT !.m_confirmedAbsolutePos = LibDecodePosition(r.d)],
             maxFrames, ev)

FlacAudioLoop(d, maxFrames, ev) ==
    IF Len(d.m_outputBuffer) >= maxFrames THEN [d |-> d, ev |-> ev]
    ELSE IF Len(d.m_inputBuffer) - d.m_inputPos = 0 /\ ~d.m_eof
    THEN [d |-> d, ev |-> ev]
    ELSE FlacAfterSingle(LibProcessSingle(d), maxFrames, ev)

\* the input buffer compacted up to the confirmed position
FlacCompact(p2) ==
    [d |-> FlacErase(p2.d, ConfirmedBufPos(p2.d)), ev |-> p2.ev]

\* the copy of the decoded frames to the caller
FlacCopyOut(p3, maxFrames) ==
    LET framesToCopy == Min(Len(p3.d.m_outputBuffer), maxFrames)
    IN  IF ~p3.d.m_formatReady THEN [d |-> p3.d, out |-> <<>>, ev |-> p3.ev]
        ELSE [d |-> [p3.d EXCEPT !.m_outputBuffer = Drop(@, framesToCopy)],
              out |-> Take(p3.d.m_outputBuffer, framesToCopy), ev |-> p3.ev]

\* read_decoded after Phase 1, whose outcome is p1
FlacAfterPhase1(p1, maxFrames) ==
    IF p1.stop THEN [d |-> p1.d, out |-> <<>>, ev |-> p1.ev]
    ELSE FlacCopyOut(FlacCompact(FlacAudioLoop(p1.d, maxFrames, p1.ev)),
                     maxFrames)

\* lazy initialisation of the library
FlacLazyInit(d0) ==
    IF d0.m_initialized THEN d0
    ELSE [d0 EXCEPT !.lib = LibNew, !.m_initialized = TRUE]

FlacPhase1(d1) ==
    IF d1.m_metadataDone THEN [d |-> d1, ev |-> "", stop |-> FALSE]
    ELSE FlacMetadataPhase(d1)

FlacDecoder_readDecoded(d0, maxFrames) ==
    IF d0.m_error \/ d0.m_finished THEN [d |-> d0, out |-> <<>>, ev |-> ""]
    ELSE FlacAfterPhase1(FlacPhase1(FlacLazyInit(d0)), maxFrames)

\* ---- the decoder driven by a caller ----
\*   fed    : bytes of the stream given to feed so far
\*   out    : the frames read_decoded has returned, in order
\*   ev     : what the latest read_decoded ran into
\*   before : the decoder as the latest read_decoded found it
FlacInit ==
    ProgramInit /\ unit = [kind |-> "flac", fed |-> 0, d |-> FlacDecoderNew,
                           out |-> <<>>, op |-> "new", ev |-> "",
                           before |-> FlacDecoderNew]

FlacUnitFeed ==
    /\ unit.kind = "flac"
    /\ unit.fed < Len(FlacBytes) /\ ~unit.d.m_eof
    /\ \E n \in FlacFeedLens :
         LET k == Min(n, Len(FlacBytes) - unit.fed)
         IN  unit' = [unit EXCEPT
                        !.d = FlacDecoder_feed(@, SubSeq(FlacBytes, unit.fed + 1,
                                                         unit.fed + k)),
                        !.fed = @ + k, !.op = "feed"]
    /\ UNCHANGED <<vars, g_running, mainT, client, ctl, wire>>

FlacUnitRead ==
    /\ unit.kind = "flac"
    /\ \E maxFrames \in FlacReadFrames :
         \E r \in {FlacDecoder_readDecoded(unit.d, maxFrames)} :
             unit' = [unit EXCEPT !.d = r.d, !.out = @ \o r.out, !.op = "read",
                                  !.ev = r.ev, !.before = unit.d]
    /\ UNCHANGED <<vars, g_running, mainT, client, ctl, wire>>

\* the caller signals EOF, at the end of the stream or before it
FlacUnitSetEof ==
    /\ unit.kind = "flac"
    /\ ~unit.d.m_eof
    /\ unit' = [unit EXCEPT !.d = FlacDecoder_setEof(@), !.op = "eof"]
    /\ UNCHANGED <<vars, g_running, mainT, client, ctl, wire>>

NextFlac == FlacUnitFeed \/ FlacUnitRead \/ FlacUnitSetEof
SpecFlac == FlacInit /\ [][NextFlac]_allvars

(***************************************************************************)
(* Properties of the shutdown, the connection loop and the dispatcher.     *)
(***************************************************************************)
\* C11: once the main thread has closed and disabled the Sink at shutdown,
\* no audio thread calls sendAudio any more, the detached one included
C11_NoSendAfterClose ==
    [][mainT.pc = "closed"
         => \A t \in Tracks : thr'[t].sends = thr[t].sends]_allvars

\* C12: at no time are Sink control calls (open, stop, close) in progress
\* on two threads
C12_OneControlCallAtATime == Cardinality(ctl) <= 1

\* C13: once shutdown is requested the main thread gets through every wait
\* for another thread and the process exits
C13_ShutdownTerminates == ~g_running ~> mainT.pc = "exited"

\* the i-th wait in a row of failing attempts
ExpectedWait(i) == IF i <= 4 THEN 2 ^ i ELSE 30

\* C14: the waits before successive failing connection attempts are 2, 4,
\* 8, 16 s and then 30 s each; after a successful connect the row starts
\* again, so the next wait is 2 s
C14_BackoffSchedule ==
    /\ \A i \in 1..Len(mainT.waits) : mainT.waits[i] = ExpectedWait(i)
    /\ mainT.backoffS = ExpectedWait(Len(mainT.waits) + 1)

\* a connection was made and lost, and six attempts in a row have failed
\* since: the sixth wait is over
C14_Witness ==
    /\ Len(mainT.waits) = 6
    /\ mainT.connectionCount >= 1
    /\ Len(client.helos) = 1

\* the receive loop has ended: the client is marked disconnected
LoopEndMarksDisconnected == client.rxT = "returned" => ~client.connected

\* from the end of stopAudioThread to the next connect the audio thread is
\* stopped: the flag is cleared and the thread object holds no thread
AudioStoppedBeforeReconnect ==
    (mainT.pc \in {"disc", "joinRx", "loop", "sleep", "connect"}
     /\ Len(client.helos) >= 1)
        => ~audioTestRunning /\ audioTestThread = 0

\* every HELO carries the MAC address and capabilities of the first one
SameRegistration ==
    \A i \in 1..Len(client.helos) : client.helos[i] = client.helos[1]

RxPass == CanRead(wire.frame) /\ Len(wire.frame') < Len(wire.frame)

\* the frame the pass reads is a strm frame with a whole head
StrmInbound ==
    /\ Inbound(wire.frame).opcode = Op.strm
    /\ Len(Inbound(wire.frame).payload) >= sizeofStrmCommand

\* the serverTimestamp field of a STAT frame: bytes 47..50 of the payload,
\* behind the 8 bytes of opcode and length
StatTimestamp(frame) == SubSeq(frame, 56, 59)

\* C16: a strm frame with sub-command 't' is answered with exactly one STAT
\* frame, of event STMt, whose server timestamp is the one the frame
\* carries, and the stream callback is not invoked
C16_HeartbeatEchoed ==
    [][(RxPass /\ StrmInbound
        /\ Inbound(wire.frame).payload[1] = STRM_STATUS)
       => /\ Len(wire.out') = Len(wire.out) + 1
          /\ SubSeq(wire.out', 1, Len(wire.out)) = wire.out
          /\ LET stat == wire.out'[Len(wire.out')]
             IN  /\ SubSeq(stat, 1, 4) = Op.STAT
                 /\ SubSeq(stat, 9, 12) = STMt
                 /\ StatTimestamp(stat)
                      = SubSeq(Inbound(wire.frame).payload, 15, 18)
          /\ wire.streamCb' = wire.streamCb]_allvars

\* the heartbeat with timestamp 0xDEADBEEF has been answered
C16_Witness ==
    /\ Len(wire.out) = 1
    /\ SubSeq(wire.out[1], 9, 12) = STMt
    /\ StatTimestamp(wire.out[1]) = <<222, 173, 190, 239>>
    /\ wire.streamCb = <<>>

StatFrames == {i \in 1..Len(wire.out) : SubSeq(wire.out[i], 1, 4) = Op.STAT}

\* C17, as the code has it: every STAT frame sent has a payload of
\* sizeof(StatPayload) = 53 bytes and a length field that says 53
C17_StatPayloadIs53 ==
    \A i \in StatFrames :
        /\ Len(wire.out[i]) - 8 = sizeofStatPayload
        /\ Ntohl(SubSeq(wire.out[i], 5, 8)) = U32(sizeofStatPayload)

\* C17, as stated: every STAT frame sent has a payload of 57 bytes and a
\* length field that says 57
C17_StatPayloadIs57 ==
    \A i \in StatFrames :
        /\ Len(wire.out[i]) - 8 = 57
        /\ Ntohl(SubSeq(wire.out[i], 5, 8)) = U32(57)

\* two STAT frames have been sent
C17_Witness == Cardinality(StatFrames) = 2

\* the pass reads a strm frame whose payload begins with the 24 bytes
S5Inbound ==
    /\ RxPass /\ StrmInbound
    /\ SubSeq(Inbound(wire.frame).payload, 1, sizeofStrmCommand) = S5Head

\* what the dispatcher does with that frame, but for the server port: one
\* more call of the stream callback, with command 's', format 'f', rate
\* code '3' (44100 Hz), channel code '2' (2 channels), and the bytes from
\* offset 24 on as the HTTP request
S5Dispatched ==
    /\ Len(wire.streamCb') = Len(wire.streamCb) + 1
    /\ SubSeq(wire.streamCb', 1, Len(wire.streamCb)) = wire.streamCb
    /\ LET call == wire.streamCb'[Len(wire.streamCb')]
       IN  /\ call.cmd.command = STRM_START
           /\ call.cmd.format = 102
           /\ call.cmd.pcmSampleRate = 51
           /\ sampleRateFromCode(call.cmd.pcmSampleRate) = 44100
           /\ call.cmd.pcmChannels = 50
           /\ ChannelsFromCode(call.cmd.pcmChannels) = 2
           /\ call.httpRequest
                = SubSeq(Inbound(wire.frame).payload, 25,
                         Len(Inbound(wire.frame).payload))

\* C18, as the code has it: the two bytes 23 28 lie at offsets 20 and 21,
\* in the server-IP field; the server port, at offsets 18 and 19, decodes
\* to 0, for which the stream callback takes the default port 9000
C18_S5DecodesPortZero ==
    [][S5Inbound
       => /\ S5Dispatched
          /\ LET call == wire.streamCb'[Len(wire.streamCb')]
             IN  /\ getServerPort(call.cmd) = 0
                 /\ call.cmd.serverIp = <<35, 40, 0, 0>>
                 /\ StreamPort(call.cmd) = SLIMPROTO_HTTP_PORT]_allvars

\* C18, as stated: the server port decodes to 0x2328
C18_S5DecodesPort9000 ==
    [][S5Inbound
       => /\ S5Dispatched
          /\ LET call == wire.streamCb'[Len(wire.streamCb')]
             IN  getServerPort(call.cmd) = 9000]_allvars

\* the stream callback has been invoked once, for the 24 bytes followed by
\* an HTTP request
C18_Witness ==
    /\ Len(wire.streamCb) = 1
    /\ wire.streamCb[1].cmd = StrmCommand(S5Head)
    /\ wire.streamCb[1].httpRequest = HttpGet

KnownOpcodes == {Op.strm, Op.audg, Op.setd, Op.serv, Op.vers, Op.aude} \cup Op.display

KnownStrmCommands ==
    {STRM_START, STRM_STOP, STRM_PAUSE, STRM_UNPAUSE, STRM_FLUSH,
     STRM_STATUS, STRM_SKIP}

\* the pass reads a length under 4, a strm frame shorter than its head or
\* with an unknown sub-command, or an unknown opcode
BadInbound ==
    /\ RxPass
    /\ \/ Inbound(wire.frame).frameLen < 4
       \/ /\ Inbound(wire.frame).opcode = Op.strm
          /\ Len(Inbound(wire.frame).payload) < sizeofStrmCommand
       \/ /\ StrmInbound
          /\ Inbound(wire.frame).payload[1] \notin KnownStrmCommands
       \/ /\ Inbound(wire.frame).frameLen >= 4
          /\ Inbound(wire.frame).opcode \notin KnownOpcodes

\* C19: such a frame is logged and nothing else: no stream or volume
\* callback, no reply, and the receive loop goes on with the client
\* connected
C19_BadFrameSkipped ==
    [][BadInbound
       => /\ wire.log' \in {"Invalid frame length", "strm too short",
                            "Unknown strm command", "Unknown command"}
          /\ wire.streamCb' = wire.streamCb
          /\ wire.volumeCb' = wire.volumeCb
          /\ wire.out' = wire.out
          /\ client.connected' /\ client.running'
          /\ client.rxT' = "run" /\ client.sock' = "open"]_allvars

\* a strm frame with an unknown sub-command was the last frame read, after
\* other frames, and nothing was sent or called back
C19_Witness ==
    /\ wire.log = "Unknown strm command"
    /\ wire.n >= 2 /\ wire.frame = <<>>
    /\ wire.out = <<>> /\ wire.streamCb = <<>> /\ wire.volumeCb = <<>>
    /\ client.connected

\* C20: when the audio thread of a stream-start is created, the client has
\* sent STMc, then RESP, then STMh for it, and the step leaves the elapsed
\* and byte counters at zero; a thread has sent no STAT of its own while
\* STMh is not out
C20_StartOrder ==
    /\ [][\A t \in Tracks :
            (thr[t].pc = "none" /\ thr'[t].pc \notin {"none", "nothread"})
               => /\ wire.out = <<"STMc", "RESP", "STMh">>
                  /\ wire.out' = wire.out
                  /\ elapsedMs' = 0 /\ bytesReceived' = 0]_allvars
    /\ [](\A t \in Tracks :
            (thr[t].pc # "nothread" /\ thr[t].stats # <<>>)
               => wire.out = <<"STMc", "RESP", "STMh">>)

\* the audio thread of the track has sent a STAT of its own, after the
\* three replies to the stream-start
C20_Witness ==
    /\ thr[1].pc # "nothread" /\ thr[1].stats # <<>>
    /\ wire.out = <<"STMc", "RESP", "STMh">>
    /\ client.connected

(***************************************************************************)
(* Properties of the audio thread's status events, the decoders and the    *)
(* DSD reader.                                                             *)
(***************************************************************************)
\* this step of thread t sends STMl
SendsSTMl(t) ==
    /\ Len(thr'[t].stats) = Len(thr[t].stats) + 1
    /\ thr'[t].stats[Len(thr'[t].stats)] = "STMl"

\* the step hands the whole prebuffer of thread t to the Sink: every chunk
\* of the decode cache for PCM, everything readPlanar can return for DSD
PrebufferHanded(t) ==
    IF IsDsd(t)
    THEN ReadPlanar(thr[t].rd, thr[t].s, DSD_PLANAR_BUF).n = 0
    ELSE thr'[t].sends - thr[t].sends
           = (CacheFrames(thr[t]) + MAX_DECODE_FRAMES - 1)
             \div MAX_DECODE_FRAMES

\* C21: a thread has sent STMs before its first sendAudio, and sends STMl
\* only with the Sink open and the whole prebuffer handed to it
C21_StartedThenLoaded ==
    /\ [](\A t \in Tracks :
            thr[t].sends > 0
              => \E i \in 1..Len(thr[t].stats) : thr[t].stats[i] = "STMs")
    /\ [][\A t \in Tracks :
            SendsSTMl(t) => sink.open' /\ PrebufferHanded(t)]_vars

\* the bytes of the body the client has taken from the socket
IcyConsumed == Take(unit.body, Len(unit.body) - Len(unit.sock))

IsAudio(b) == b[2]

\* C22: with a metadata interval above 0, whatever the sizes of the read
\* calls and of the socket reads, the bytes delivered so far are the audio
\* bytes among those taken from the socket, in their order; no length byte
\* and no metadata byte is among them, and no audio byte is dropped
C22_OnlyAudioDelivered ==
    (unit.kind = "icy" /\ unit.icyMetaInt > 0)
       => unit.out = SelectSeq(IcyConsumed, IsAudio)

\* the whole of a body with two 16-byte metadata blocks has been read, its
\* five audio bytes delivered, and the end of the body reported
C22_Witness ==
    /\ unit.kind = "icy" /\ unit.icyMetaInt = 2
    /\ Len(unit.body) = 5 + 2 * 17
    /\ unit.sock = <<>> /\ unit.ret = 0 /\ ~unit.connected
    /\ Len(unit.out) = 5


IsPrefix(a, b) == Len(a) <= Len(b) /\ a = SubSeq(b, 1, Len(a))

\* C23: however the input is split into feed calls interleaved with
\* readDecoded calls, the samples produced so far are a prefix of what feeding
\* all bytes at once and then reading to exhaustion produces.
C23_SplitGivesPrefix ==
    (unit.kind = "pcm" /\ unit.pass = 1)
        => IsPrefix(unit.out, PcmFeedAllThenRead(unit.s))

\* C24: after flush() and a replay of the same input bytes to exhaustion, the
\* decoded output equals the output of the first pass.
C24_FlushReplaySame ==
    (unit.kind = "pcm" /\ unit.pass = 2 /\ PcmExhausted(unit))
        => unit.out = unit.first

\* C25: every sample the decoder emits from a source of depth N is the source
\* sample shifted left by 32 - N.
C25_MsbAligned ==
    (unit.kind = "pcm" /\ unit.pass = 1)
        => /\ Len(unit.out) <= Len(unit.s.samples)
           /\ \A i \in 1..Len(unit.out) :
                  unit.out[i] = unit.s.samples[i] * 2 ^ (32 - unit.s.N)

DeclaredConsumed == unit.s.declared > 0 /\ unit.consumed = unit.s.declared
WholeFramesLeft ==
    LET d == unit.d
    IN  (IF d.m_dataRemaining > 0 THEN Min(Len(d.m_dataBuf), d.m_dataRemaining)
         ELSE Len(d.m_dataBuf)) \div ((d.bitDepth \div 8) * d.channels)

\* C26 as stated: the decoder is finished only when EOF was signalled and no
\* input byte is buffered, or the declared data size has been consumed.
C26_FinishedOnlyWhenDrained ==
    (unit.kind = "pcm" /\ unit.d.m_finished)
        => \/ unit.d.m_eof /\ unit.d.m_dataBuf = <<>>
           \/ DeclaredConsumed

\* C26: the decoder is finished only when EOF was signalled and less than one
\* whole frame is left to convert, or the declared data size has been consumed.
C26_FinishedOnlyWhenNoFrameLeft ==
    (unit.kind = "pcm" /\ unit.d.m_finished)
        => \/ unit.d.m_eof /\ WholeFramesLeft = 0
           \/ DeclaredConsumed

C26_Witness ==
    /\ unit.kind = "pcm" /\ unit.pass = 1
    /\ unit.d.m_finished /\ unit.d.m_eof
    /\ Len(unit.d.m_dataBuf) = 1
    /\ Len(unit.out) = 2


DsdRank(st) ==
    CASE st = "DETECT" -> 0
      [] st \in {"PARSE_DSF", "PARSE_DFF"} -> 1
      [] st = "DATA" -> 2
      [] st \in {"DONE", "ERROR"} -> 3
DsdMoveAllowed(a, b) ==
    \/ a = b
    \/ a \notin {"DONE", "ERROR"} /\ DsdRank(a) < DsdRank(b)

\* C27: apart from flush, a call moves the reader's state only forward along
\* Detect, ParseDsf or ParseDff, Data, Done, or into Error; in Done and in
\* Error a feed leaves the reader as it is and readPlanar returns nothing.
C27_DsdStateMachine ==
    [][ (unit.kind = "dsd" /\ unit'.op # "flush")
          => /\ DsdMoveAllowed(unit.r.m_state, unit'.r.m_state)
             /\ (unit.r.m_state \in {"DONE", "ERROR"} /\ unit'.op = "feed")
                   => unit'.r = unit.r
             /\ (unit.r.m_state \in {"DONE", "ERROR"} /\ unit'.op = "read")
                   => (unit'.chunk = <<>> /\ unit'.r = unit.r) ]_allvars

C27_Witness ==
    /\ unit.kind = "dsd" /\ unit.pass = 1
    /\ unit.r.m_state = "DONE"
    /\ unit.op = "feed"
    /\ unit.pos = Len(unit.s.bytes)
    /\ unit.r.m_totalBytesOutput > 0

\* C28: every chunk readPlanar returns has a length divisible by the channel
\* count and is planar: its c-th part holds channel c's next bytes in
\* temporal order.
C28_ChunksPlanar ==
    (unit.kind = "dsd" /\ unit.op = "read" /\ unit.chunk # <<>>)
        => LET C == unit.s.channels
               n == Len(unit.chunk)
           IN  /\ n % C = 0
               /\ \A c \in 0..(C - 1) : \A j \in 0..((n \div C) - 1) :
                    unit.chunk[c * (n \div C) + j + 1] = Tag(c, (unit.before \div C) + j)


\* C29: a Sink paused by a strm 'p' that carried a non-zero interval N is
\* resumed by the client itself once N ms have passed: it is never still
\* paused more than N ms after the command.
C29_PauseAutoResumes ==
    (unit.kind = "pause" /\ unit.paused /\ unit.interval > 0)
        => unit.since <= unit.interval


\* C30: the bytes of each outbound frame are contiguous on the wire: all the
\* bytes one call of sendMessage writes form a single run, and when the call
\* has returned from a working socket the run is opcode, length and payload.
C30_FramesContiguous ==
    unit.kind = "send"
        => /\ \A i, j \in 1..Len(unit.wire) :
                 unit.wire[i].by = unit.wire[j].by => i = j
           /\ \A i \in 1..Len(unit.wire) :
                 LET t == unit.wire[i].by[1]
                 IN  (unit.sockOk /\ ~(unit.th[t].pc = "sendAll"
                                       /\ unit.th[t].k = unit.wire[i].by[2]))
                         => /\ unit.wire[i].bytes \in SenderFrames(t)
                            /\ Len(unit.wire[i].bytes)
                                   = 8 + unit.wire[i].bytes[8]

C30_Witness ==
    /\ unit.kind = "send"
    /\ unit.m_sendMutex = "audio"
    /\ unit.th["audio"].frame # <<>>
    /\ unit.wire # <<>>
    /\ unit.wire[Len(unit.wire)].by = <<"audio", unit.th["audio"].k>>
    /\ \E i \in 1..Len(unit.wire) : unit.wire[i].by[1] = "rx"
    /\ \E i \in 1..Len(unit.wire) : unit.wire[i].by[1] = "main"


(***************************************************************************)
(* Properties of the PCM audio loop: the ring, the decode cache, the       *)
(* prebuffer and the elapsed time.                                         *)
(***************************************************************************)
\* C31: every send_audio of the audio thread (prebuffer flush, steady state,
\* final drain) is accepted in full by the ring: the samples taken from the
\* decode cache and counted in pushed_frames are the samples written
C31_SendsAcceptedInFull ==
    unit.kind = "flow" => unit.accepted = unit.sent

\* C32: the decode cache receives exactly the samples the decoder produced:
\* f frames read from a decoder of C channels append f x C samples
C32_CacheHoldsDecoderOutput ==
    unit.kind = "flow" => unit.appended = unit.produced

\* C34: before the Sink is open and before HTTP EOF, ingest is never backed
\* off while the prebuffer threshold is unmet
C34_PrebufferReachable ==
    ~(/\ unit.kind = "flow" /\ unit.pc = "loop"
      /\ ~unit.opened /\ ~unit.httpEof /\ unit.formatLogged
      /\ ~CacheHasSpace(unit)
      /\ CacheFrames(unit) < TargetFrames(unit))

\* C37: within a track the elapsed milliseconds reported to the control
\* client never decrease
C37_ElapsedMonotone ==
    unit.kind = "flow" => unit.elapsedMs >= unit.prevElapsed

\* C38 as stated: the decode cache never holds more than 768000 unread
\* samples
C38_CacheWithinCap ==
    unit.kind = "flow"
        => unit.cacheSize - unit.cachePos <= DECODE_CACHE_MAX_SAMPLES

\* C38: HTTP ingest and the drain of the decoder start only below the cache
\* cap, so the unread samples exceed the cap by less than what the latest
\* drain appended
C38_CacheWithinCapBeforeDrain ==
    unit.kind = "flow"
        => unit.cacheSize - unit.cachePos - unit.lastDrain
               < DECODE_CACHE_MAX_SAMPLES

\* the cache has gone past the cap in one drain, and ingest is backed off
C38_Witness ==
    /\ unit.kind = "flow" /\ unit.pc = "loop" /\ ~unit.httpEof
    /\ unit.cacheSize - unit.cachePos > DECODE_CACHE_MAX_SAMPLES
    /\ unit.lastDrain > 0


\* C33: for a DSF or DFF stream whose data chunk declares N > 0 payload
\* bytes, the reader buffers and emits at most N payload bytes in total,
\* however the input is split over the feed calls
C33_AtMostDeclaredPayload ==
    (unit.kind = "dsd" /\ unit.r.m_state \in {"DATA", "DONE"})
        => unit.r.m_totalBytesOutput + Len(unit.r.m_dataBuf) <= unit.s.hint


\* C35: the shared done flag is true only when the most recently spawned
\* audio thread has finished, or when none was ever spawned
C35_DoneMeansLastThreadFinished ==
    audioThreadDone =>
        \A t \in Tracks :
            (thr[t].pc \notin {"none", "nothread"} /\ ~Superseded(t))
                => thr[t].pc = "ended"


\* the frames of a sequence whose length field is at least 4
RECURSIVE WellFormed(_)
WellFormed(frames) ==
    IF frames = <<>> THEN <<>>
    ELSE IF Ntohs(SubSeq(Head(frames), 1, 2)) >= 4
    THEN <<Head(frames)>> \o WellFormed(Tail(frames))
    ELSE WellFormed(Tail(frames))

\* C36: the receive loop stays aligned with the frame boundaries after a
\* frame whose length field is 1, 2 or 3: what it dispatches are the
\* well-formed frames the server sent, each with its own opcode and payload,
\* in the order sent
C36_AlignedAfterShortFrame ==
    unit.kind = "rxloop" =>
        /\ Len(unit.dispatched) <= Len(WellFormed(unit.sentFrames))
        /\ \A i \in 1..Len(unit.dispatched) :
              ServerFrame(unit.dispatched[i].opcode,
                          unit.dispatched[i].payload)
                  = WellFormed(unit.sentFrames)[i]


(***************************************************************************)
(* Properties of the FLAC decoder.                                         *)
(***************************************************************************)
\* C39: in the audio phase no input byte at or after the confirmed position
\* is discarded or skipped: the input buffer holds the bytes fed from
\* m_tellOffset on, m_tellOffset <= confirmed position <= m_tellOffset +
\* buffered length after every read_decoded, after a mid-frame abort the
\* read position is the confirmed position, and the frames come out whole
\* and in order
C39_NothingLostAfterConfirmed ==
    (unit.kind = "flac" /\ unit.d.m_metadataDone) =>
        LET d == unit.d
        IN  /\ d.m_inputBuffer = SubSeq(FlacBytes, d.m_tellOffset + 1, unit.fed)
            /\ d.m_tellOffset <= d.m_confirmedAbsolutePos
            /\ d.m_confirmedAbsolutePos <= d.m_tellOffset + Len(d.m_inputBuffer)
            /\ (unit.op = "read" /\ unit.ev = "frameAbort")
                  => d.m_inputPos = ConfirmedBufPos(d)
            /\ ~d.m_error
            /\ \A k \in 1..Len(unit.out) : unit.out[k] = 2 + k

\* a mid-frame abort behind a decoded frame, with bytes of the cut frame kept
C39_Witness ==
    /\ unit.kind = "flac" /\ unit.op = "read" /\ unit.ev = "frameAbort"
    /\ Len(unit.out) >= 1
    /\ Len(unit.d.m_inputBuffer) > 0

\* C40: when the library aborts in the metadata phase for lack of input, the
\* decoder destroys the library state, leaves the content and length of the
\* input buffer as they were, puts the read position back where it was
\* before the attempt, reports no error, and tries again on the next
\* read_decoded
C40_MetadataAbortKeepsInput ==
    (unit.kind = "flac" /\ unit.op = "read" /\ unit.ev = "metaAbort") =>
        /\ unit.d.lib.state = "none" /\ ~unit.d.m_initialized
        /\ unit.d.m_inputBuffer = unit.before.m_inputBuffer
        /\ unit.d.m_inputPos = unit.before.m_inputPos
        /\ ~unit.d.m_error /\ ~unit.d.m_finished /\ ~unit.d.m_metadataDone

\* the abort came in the second metadata block, after STREAMINFO
C40_Witness ==
    /\ unit.kind = "flac" /\ unit.op = "read" /\ unit.ev = "metaAbort"
    /\ unit.d.m_formatReady
    /\ Len(unit.d.m_inputBuffer) >= 3

====
